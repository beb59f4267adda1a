-------------------------- MODULE PhaseOrchestrator --------------------------
(***************************************************************************)
(* LocalOrchestrator: one call at a time per process, each call a sequence *)
(* of reads and writes of the job's files around the run of a phase.       *)
(*                                                                         *)
(* A process that serves POST /resume calls resume_lenient: it walks down  *)
(* the prerequisites of the requested phase (`target'), runs the unmet     *)
(* ones from the deepest up, then resumes the phase itself; `cur' is the   *)
(* phase in hand.  As no phase has two prerequisites, the frames of the    *)
(* recursion are the phases from cur up to target.                         *)
(* scripts/run_assessment.py drives schema design and synthesis through    *)
(* the strict resume, after writing what it ran itself into the            *)
(* progression.  The progression is loaded once per run of a phase, kept   *)
(* in memory (`prog') while the phase runs, and written back whole.        *)
(***************************************************************************)
EXTENDS JobStore

CONSTANTS
    ApiProcs,    \* processes that serve the phase routes of the API
    CliProcs,    \* processes that run scripts/run_assessment.py --all
    LibProcs,    \* processes that call start_job
    Targets,     \* the phases POST /resume is asked for
    MaxCalls,    \* bound: calls made in a behaviour
    Crashes,     \* may a process be killed in the middle of a call
    Exits        \* may run_collector call sys.exit

Procs == ApiProcs \cup CliProcs \cup LibProcs

ASSUME OrchestratorAssumption ==
    /\ Targets \subseteq Phase
    /\ MaxCalls \in Nat
    /\ Crashes \in BOOLEAN
    /\ Exits \in BOOLEAN

VARIABLES
    orch,      \* what each process is doing
    calls,     \* calls made so far
    unlocked   \* history: phases whose prerequisites some stored progression met

orchVars == <<orch, calls, unlocked>>
vars == <<storeVars, orchVars>>

Pc == {"idle", "descend", "reload", "validate", "clearRead", "clearWrite", "load",
       "begin", "run", "fail", "finish", "getProgression", "force", "assessed",
       "markRead", "markWrite", "confirmLoad", "confirmSave"}

(* assess: run_assessment.py before it calls resume; strict: that resume.  *)
Op == {"none", "resume", "start", "confirm", "assess", "strict"}

Frame == [pc : Pc, op : Op, cur : Phase, target : Phase,
          clears : Seq(ScriptPhase), prog : Progression]

Idle == [pc |-> "idle", op |-> "none", cur |-> "collect_triage",
         target |-> "collect_triage", clears |-> <<>>, prog |-> NewProgression]

(* The phases a progression lets start.                                    *)
Startable(prog) == {p \in Phase : Unmet(prog, p) = {}}

(* _save_progression                                                       *)
SaveProgression(prog) ==
    /\ meta' = prog
    /\ unlocked' = unlocked \cup Startable(prog)

(* _load_progression, which stores what it had to infer.                   *)
StoreInferred ==
    IF meta = NoMeta THEN SaveProgression(InferProgression) ELSE UNCHANGED <<meta, unlocked>>

(* The frame that waits for p on the way up to target.                     *)
Above(p, target) ==
    IF p \in Prerequisites(target) THEN target
    ELSE CHOOSE q \in Phase : p \in Prerequisites(q)

(* A frame of _auto_complete_prerequisites runs its prerequisite; past the *)
(* last one, resume_lenient goes on to resume.                             *)
NextFrame(p, target) == IF p = target THEN "validate" ELSE "reload"

(* _skip_reason *)
Skips(p) == p = "schema_design" /\ LlmMode = "none"

ClearedEngineNone(p) == NoEngine    \* a mutant of the next: no engine is wildcarded

(* The engine _clear_script_markers_for_phase clears for.                  *)
ClearedEngine(p) == IF p \in FanOutPhases THEN AnyEngine ELSE NoEngine

(* The artifacts a run that succeeds writes.  The fan-out phases work on   *)
(* the engines of the triage output: without one they do nothing.          *)
Outputs(p) ==
    CASE p = "collect_triage" -> {"collector", "triage"}
      [] p = "analysis"       -> IF "triage" \in arts THEN {"analysis"} ELSE {}
      [] p = "schema_design"  -> IF "triage" \in arts /\ ~Skips(p) THEN {"schema"} ELSE {}
      [] p = "synthesis"      -> {"report"}
      [] OTHER                -> {p} \cap Artifact

(* What a run that raises may have written first.                          *)
PartialOutputs(p) ==
    IF p = "collect_triage" THEN {{}, {"collector"}} ELSE {{}, Outputs(p)}

(* The artifacts without which the phase's handler raises.                 *)
Needs(p) ==
    CASE p = "assignment"    -> {"collector", "triage"}
      [] p = "reality_check" -> {"collector", "triage", "assignment"}
      [] OTHER               -> {}

-----------------------------------------------------------------------------
At(self, pc) == orch[self].pc = pc
Nested(self) == orch[self].cur # orch[self].target
Goto(self, pc) == orch' = [orch EXCEPT ![self].pc = pc]
GotoWith(self, pc, prog) == orch' = [orch EXCEPT ![self].pc = pc, ![self].prog = prog]
Return(self) == orch' = [orch EXCEPT ![self] = Idle]

(* An exception leaves the call: run_assessment.py records it first.       *)
Raise(self) ==
    IF orch[self].op = "strict" THEN Goto(self, "markRead") ELSE Return(self)

(***************************************************************************)
(* The calls.  MaxCalls is the only bound.                                 *)
(***************************************************************************)
Call(self, pc, op, cur, target, prog) ==
    /\ At(self, "idle")
    /\ calls < MaxCalls
    /\ calls' = calls + 1
    /\ orch' = [orch EXCEPT ![self] =
                  [pc |-> pc, op |-> op, cur |-> cur, target |-> target,
                   clears |-> <<>>, prog |-> prog]]
    /\ UNCHANGED <<storeVars, unlocked>>

ResumePhaseCancelled(self) ==    \* a mutant of the next: cancelling blocks nothing
    /\ self \in ApiProcs
    /\ \E p \in Targets : Call(self, "descend", "resume", p, p, NewProgression)

(* POST /{job}/resume: refused for a cancelled job.                        *)
ResumePhase(self) ==
    /\ self \in ApiProcs
    /\ marker.status # "CANCELLED"
    /\ \E p \in Targets : Call(self, "descend", "resume", p, p, NewProgression)

(* POST /{job}/schema/confirm-all: refused for a cancelled job, or when    *)
(* triage names no engine.                                                 *)
ConfirmAll(self) ==
    /\ self \in ApiProcs
    /\ marker.status # "CANCELLED"
    /\ "triage" \in arts
    /\ Call(self, "confirmLoad", "confirm", "schema_design", "schema_design", NewProgression)

(* start_job: a new progression in memory, whatever is stored.             *)
StartJob(self) ==
    /\ self \in LibProcs
    /\ Call(self, "begin", "start", "collect_triage", "analysis", NewProgression)

(* run_assessment.py --all, once its own reality check is done: each phase *)
(* starts by clearing the phase's marker for any engine (_start_phase).    *)
AssessFrame(p) ==
    [pc |-> "clearRead", op |-> "assess", cur |-> p, target |-> p,
     clears |-> <<p>>, prog |-> NewProgression]

AssessSchemaDesign(self) ==
    /\ self \in CliProcs
    /\ "reality_check" \in arts
    /\ At(self, "idle")
    /\ calls < MaxCalls
    /\ calls' = calls + 1
    /\ orch' = [orch EXCEPT ![self] = AssessFrame("schema_design")]
    /\ UNCHANGED <<storeVars, unlocked>>

AssessSynthesis(self) ==
    /\ At(self, "assessed")
    /\ orch' = [orch EXCEPT ![self] = AssessFrame("synthesis")]
    /\ UNCHANGED <<storeVars, calls, unlocked>>

(* _run_post_schema_routing, between the two, raises.                      *)
RoutingRaises(self) ==
    /\ At(self, "assessed")
    /\ Goto(self, "markRead")
    /\ UNCHANGED <<storeVars, calls, unlocked>>

(* get_progression, which infers nothing when nothing is stored.           *)
GetProgression(self) ==
    /\ At(self, "getProgression")
    /\ GotoWith(self, "force", IF meta = NoMeta THEN NewProgression ELSE meta)
    /\ UNCHANGED <<storeVars, calls, unlocked>>

(* run_assessment.py records what it ran outside the orchestrator: by      *)
(* assigning the status alone, except for the review gate.                 *)
Forced(prog, target) ==
    IF target = "schema_design"
    THEN SetPhaseStatus([prog EXCEPT !["reality_check"].status = "completed"],
                        "assignment_review", "completed", "none")
    ELSE IF prog["schema_design"].status = "skipped" THEN prog
    ELSE [prog EXCEPT !["schema_design"].status = "completed"]

AdoptAssessed(self) ==
    /\ At(self, "force")
    /\ SaveProgression(Forced(orch[self].prog, orch[self].target))
    /\ orch' = [orch EXCEPT ![self].pc = "validate", ![self].op = "strict"]
    /\ UNCHANGED <<marker, review, arts, calls>>

-----------------------------------------------------------------------------
(***************************************************************************)
(* resume_lenient                                                          *)
(***************************************************************************)

DescendOneLevel(self) ==    \* a mutant of the next: no recursion
    /\ At(self, "descend")
    /\ StoreInferred
    /\ \/ \E q \in Unmet(LoadProgression, orch[self].cur) :
            orch' = [orch EXCEPT ![self].cur = q, ![self].pc = "reload"]
       \/ /\ Unmet(LoadProgression, orch[self].cur) = {}
          /\ Goto(self, "validate")
    /\ UNCHANGED <<marker, review, arts, calls>>

(* _auto_complete_prerequisites, on the way down: one load per frame.      *)
Descend(self) ==
    /\ At(self, "descend")
    /\ StoreInferred
    /\ \/ \E q \in Unmet(LoadProgression, orch[self].cur) :
            orch' = [orch EXCEPT ![self].cur = q]
       \/ /\ Unmet(LoadProgression, orch[self].cur) = {}
          /\ Goto(self, NextFrame(orch[self].cur, orch[self].target))
    /\ UNCHANGED <<marker, review, arts, calls>>

(* On the way up: the progression again, as a deeper frame may have        *)
(* changed it, then the stale script markers of the phase about to run.    *)
Reload(self) ==
    /\ At(self, "reload")
    /\ StoreInferred
    /\ orch' = [orch EXCEPT ![self].pc = "clearRead",
                            ![self].prog = LoadProgression,
                            ![self].clears = ScriptPhasesFor(orch[self].cur)]
    /\ UNCHANGED <<marker, review, arts, calls>>

(* _validate_prerequisites: PhasePrerequisiteError ends the call.          *)
Validate(self) ==
    /\ At(self, "validate")
    /\ StoreInferred
    /\ IF Unmet(LoadProgression, orch[self].cur) = {}
       THEN orch' = [orch EXCEPT ![self].pc = "clearRead",
                                 ![self].clears = ScriptPhasesFor(orch[self].cur)]
       ELSE Raise(self)
    /\ UNCHANGED <<marker, review, arts, calls>>

(* clear_failure_marker for each script phase: the read that decides ...   *)
ClearRead(self) ==
    /\ At(self, "clearRead")
    /\ LET clears == orch[self].clears
           p == orch[self].cur
       IN  IF clears = <<>>
           THEN Goto(self, IF Nested(self) THEN "begin"
                           ELSE IF orch[self].op = "assess" THEN "getProgression"
                           ELSE "load")
           ELSE IF JobIsReal /\ Clears(marker, Head(clears), ClearedEngine(p))
           THEN Goto(self, "clearWrite")
           ELSE orch' = [orch EXCEPT ![self].clears = Tail(clears)]
    /\ UNCHANGED <<storeVars, calls, unlocked>>

(* ... and the write, of whatever the marker has become meanwhile.         *)
ClearWrite(self) ==
    /\ At(self, "clearWrite")
    /\ marker' = PlainMarker("SUPERSEDED")
    /\ orch' = [orch EXCEPT ![self].pc = "clearRead",
                            ![self].clears = Tail(orch[self].clears)]
    /\ UNCHANGED <<meta, review, arts, calls, unlocked>>

(* resume loads the progression it will write back after the run.          *)
Load(self) ==
    /\ At(self, "load")
    /\ StoreInferred
    /\ GotoWith(self, "begin", LoadProgression)
    /\ UNCHANGED <<marker, review, arts, calls>>

Begin(self) ==
    /\ At(self, "begin")
    /\ LET prog == SetPhaseStatus(orch[self].prog, orch[self].cur, "in_progress", "none")
       IN  /\ SaveProgression(prog)
           /\ GotoWith(self, "run", prog)
    /\ UNCHANGED <<marker, review, arts, calls>>

(* _run_phase returns ...                                                  *)
RunReturns(self) ==
    /\ At(self, "run")
    /\ Needs(orch[self].cur) \subseteq arts
    /\ arts' = arts \cup Outputs(orch[self].cur)
    /\ Goto(self, "finish")
    /\ UNCHANGED <<meta, marker, review, calls, unlocked>>

RunRaisesSwallowed(self) ==    \* a mutant of the next: the phase goes on to finish
    /\ At(self, "run")
    /\ \E out \in PartialOutputs(orch[self].cur) : arts' = arts \cup out
    /\ Goto(self, "finish")
    /\ UNCHANGED <<meta, marker, review, calls, unlocked>>

(* ... or raises an Exception.  resume and start_job catch it; nothing     *)
(* does around a prerequisite.                                             *)
RunRaises(self) ==
    /\ At(self, "run")
    /\ \E out \in PartialOutputs(orch[self].cur) : arts' = arts \cup out
    /\ IF orch[self].op = "resume" /\ Nested(self) THEN Return(self) ELSE Goto(self, "fail")
    /\ UNCHANGED <<meta, marker, review, calls, unlocked>>

(* ... or calls sys.exit: SystemExit is no Exception.                      *)
RunExits(self) ==
    /\ Exits
    /\ At(self, "run")
    /\ orch[self].cur = "collect_triage"
    /\ Return(self)
    /\ UNCHANGED <<storeVars, calls, unlocked>>

Fail(self) ==
    /\ At(self, "fail")
    /\ SaveProgression(SetPhaseStatus(orch[self].prog, orch[self].cur, "failed", "none"))
    /\ Raise(self)
    /\ UNCHANGED <<marker, review, arts, calls>>

(* write_failure_marker, as run_assessment.py ends: the read ...           *)
MarkRead(self) ==
    /\ At(self, "markRead")
    /\ IF JobIsReal /\ marker.status # "CANCELLED" THEN Goto(self, "markWrite") ELSE Return(self)
    /\ UNCHANGED <<storeVars, calls, unlocked>>

(* ... and the write.                                                      *)
MarkWrite(self) ==
    /\ At(self, "markWrite")
    /\ marker' = FailureMarker(orch[self].cur, NoEngine)
    /\ Return(self)
    /\ UNCHANGED <<meta, review, arts, calls, unlocked>>

FinishPrerequisiteForReview(self) ==    \* a mutant of the next: a fan-out phase waits
    /\ At(self, "finish")               \* for its review, so the walk starts over
    /\ orch[self].op = "resume"
    /\ Nested(self)
    /\ SaveProgression(SetPhaseStatus(orch[self].prog, orch[self].cur, "awaiting_review", "none"))
    /\ orch' = [orch EXCEPT ![self].cur = orch[self].target, ![self].pc = "descend"]
    /\ UNCHANGED <<marker, review, arts, calls>>

(* A prerequisite that ran is COMPLETED: nobody is asked to review it.     *)
FinishPrerequisite(self) ==
    /\ At(self, "finish")
    /\ orch[self].op = "resume"
    /\ Nested(self)
    /\ LET p == orch[self].cur
           up == Above(p, orch[self].target)
           prog == IF Skips(p) THEN SetPhaseStatus(orch[self].prog, p, "skipped", "no_llm")
                               ELSE SetPhaseStatus(orch[self].prog, p, "completed", "none")
       IN  /\ SaveProgression(prog)
           /\ orch' = [orch EXCEPT ![self].cur = up,
                                   ![self].pc = NextFrame(up, orch[self].target),
                                   ![self].prog = prog]
    /\ UNCHANGED <<marker, review, arts, calls>>

(* The requested phase: fan-out phases wait for a review.                  *)
FinishResume(self) ==
    /\ At(self, "finish")
    /\ orch[self].op \in {"resume", "strict"}
    /\ ~Nested(self)
    /\ LET p == orch[self].cur
           prog == IF Skips(p) THEN SetPhaseStatus(orch[self].prog, p, "skipped", "no_llm")
                   ELSE SetPhaseStatus(orch[self].prog, p,
                          IF p \in FanOutPhases THEN "awaiting_review" ELSE "completed", "none")
       IN  SaveProgression(prog)
    /\ IF orch[self].op = "strict" /\ orch[self].cur = "schema_design"
       THEN Goto(self, "assessed")
       ELSE Return(self)
    /\ UNCHANGED <<marker, review, arts, calls>>

(* start_job: collect_triage COMPLETED, then analysis, on the progression  *)
(* in memory; analysis ends the call awaiting its review.                  *)
FinishStart(self) ==
    /\ At(self, "finish")
    /\ orch[self].op = "start"
    /\ IF Nested(self)
       THEN LET prog == SetPhaseStatus(orch[self].prog, "collect_triage", "completed", "none")
            IN  /\ SaveProgression(prog)
                /\ orch' = [orch EXCEPT ![self].cur = "analysis", ![self].pc = "begin",
                                        ![self].prog = prog]
       ELSE /\ SaveProgression(SetPhaseStatus(orch[self].prog, "analysis",
                                              "awaiting_review", "none"))
            /\ Return(self)
    /\ UNCHANGED <<marker, review, arts, calls>>

-----------------------------------------------------------------------------
ConfirmLoadUnchecked(self) ==    \* a mutant of the next: confirms any status
    /\ At(self, "confirmLoad")
    /\ StoreInferred
    /\ GotoWith(self, "confirmSave", LoadProgression)
    /\ UNCHANGED <<marker, review, arts, calls>>

(* confirm_schema_design: refused unless the design awaits its review.     *)
ConfirmLoad(self) ==
    /\ At(self, "confirmLoad")
    /\ StoreInferred
    /\ IF LoadProgression["schema_design"].status = "awaiting_review"
       THEN GotoWith(self, "confirmSave", LoadProgression)
       ELSE Return(self)
    /\ UNCHANGED <<marker, review, arts, calls>>

ConfirmSave(self) ==
    /\ At(self, "confirmSave")
    /\ SaveProgression(SetPhaseStatus(orch[self].prog, "schema_design", "completed", "none"))
    /\ Return(self)
    /\ UNCHANGED <<marker, review, arts, calls>>

(* The process is killed: nothing is cleaned up.                           *)
Crash(self) ==
    /\ Crashes
    /\ ~At(self, "idle")
    /\ Return(self)
    /\ UNCHANGED <<storeVars, calls, unlocked>>

-----------------------------------------------------------------------------
(* The job as the orchestrator may first meet it: scripts and skills may   *)
(* have run it up to any step, in the order of the pipeline.               *)
InitialArts ==
    {{}, {"collector"}, {"collector", "triage"}, {"collector", "triage", "analysis"},
     {"collector", "triage", "analysis", "assignment"},
     {"collector", "triage", "analysis", "assignment", "reality_check"}}

Init ==
    /\ meta = NoMeta
    /\ marker = PlainMarker("ABSENT")
    /\ review = FALSE
    /\ arts \in InitialArts
    /\ orch = [self \in Procs |-> Idle]
    /\ calls = 0
    /\ unlocked = Startable(NewProgression)

(* What a process does once a call is made.                                *)
Advance(self) ==
    \/ AssessSynthesis(self) \/ RoutingRaises(self)
    \/ GetProgression(self) \/ AdoptAssessed(self) \/ MarkRead(self) \/ MarkWrite(self)
    \/ Descend(self) \/ Reload(self) \/ Validate(self)
    \/ ClearRead(self) \/ ClearWrite(self) \/ Load(self) \/ Begin(self)
    \/ RunReturns(self) \/ RunRaises(self) \/ RunExits(self) \/ Fail(self)
    \/ FinishPrerequisite(self) \/ FinishResume(self) \/ FinishStart(self)
    \/ ConfirmLoad(self) \/ ConfirmSave(self)

Step(self) ==
    \/ ResumePhase(self) \/ ConfirmAll(self) \/ StartJob(self) \/ AssessSchemaDesign(self)
    \/ Advance(self)
    \/ Crash(self)

Next == \E self \in Procs : Step(self)

Spec == Init /\ [][Next]_vars

(* A call that was made goes on: each phase handler returns or raises.     *)
FairSpec == Spec /\ \A self \in Procs : WF_vars(Advance(self))

-----------------------------------------------------------------------------
(* Types.  A skip reason belongs to a skipped schema design alone (see     *)
(* Progression), which run_assessment.py's plain assignments could break.  *)
TypeOK ==
    /\ StoreTypeOK
    /\ orch \in [Procs -> Frame]
    /\ calls \in Nat
    /\ unlocked \subseteq Phase

(***************************************************************************)
(* A phase is marked in_progress, run and finished only after some         *)
(* progression on disk showed its prerequisites met: neither the walk of   *)
(* _auto_complete_prerequisites nor start_job ever runs a phase ahead of   *)
(* its turn, whatever other processes write back over the progression      *)
(* meanwhile (they can: nothing locks .meta).                              *)
(***************************************************************************)
AtWork == {"begin", "run", "fail", "finish"}

RunsOnlyUnlocked ==
    \A self \in Procs : orch[self].pc \in AtWork => orch[self].cur \in unlocked

(***************************************************************************)
(* COMPLETED is backed by the artifact the phase produces, in the stored   *)
(* progression and in the copies processes hold in memory and will write   *)
(* back: a run that raised, was killed or was overtaken by another process *)
(* never shows as completed.  (analysis and schema_design may complete     *)
(* with no engine to work on.)                                             *)
(***************************************************************************)
Backed(prog) ==
    /\ prog["collect_triage"].status = "completed" => "collector" \in arts
    /\ prog["assignment"].status = "completed" => "assignment" \in arts
    /\ prog["reality_check"].status = "completed" => "reality_check" \in arts
    /\ prog["synthesis"].status = "completed" => "report" \in arts

CompletedIsBacked ==
    /\ meta # NoMeta => Backed(meta)
    /\ \A self \in Procs : Backed(orch[self].prog)

(***************************************************************************)
(* Once every call has returned, no phase is left in_progress: what was    *)
(* begun ended in a status a user can act on.  A prerequisite that raises  *)
(* in resume_lenient does not keep to it (README, section 4).              *)
(***************************************************************************)
FailureRecorded ==
    (\A self \in Procs : At(self, "idle")) /\ meta # NoMeta =>
        \A p \in Phase : meta[p].status # "in_progress"

(***************************************************************************)
(* Every call comes back: the walk down the prerequisites and up again     *)
(* ends whatever another process does to the progression it reads.         *)
(***************************************************************************)
CallReturns == \A self \in Procs : ~At(self, "idle") ~> At(self, "idle")
=============================================================================
