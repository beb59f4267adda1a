---------------------------- MODULE PhaseScripts ----------------------------
(***************************************************************************)
(* scripts/run_*.py: each invocation is a process that runs one phase step *)
(* of a job (one engine of it, for the fan-out phases) and leaves in the   *)
(* artifact tree what the local UI derives the job's status from.          *)
(*                                                                         *)
(* On its way it calls shared/job_status.py: clear_failure_marker when it  *)
(* starts, mark_assignment_reviewed when it runs past the review gate,     *)
(* write_failure_marker when it fails.  Each is a read of a shared file    *)
(* followed by a write, with nothing held in between; several invocations  *)
(* run at once (one per engine).                                           *)
(***************************************************************************)
EXTENDS JobStore

CONSTANTS
    ScriptProcs,   \* processes that run scripts
    Kinds,         \* the scripts they run
    MaxRuns,       \* bound: invocations in a behaviour
    Kills          \* may an invocation be killed

ScriptKind == {"collect", "triage", "analysis", "assignment", "reality_check",
               "schema_design", "synthesis", "pe_review", "post_schema"}

ASSUME ScriptAssumption ==
    /\ Kinds \subseteq ScriptKind
    /\ MaxRuns \in Nat
    /\ Kills \in BOOLEAN

VARIABLES
    script,   \* what each process is doing
    runs,     \* invocations so far
    last      \* history: how the last attempt at a phase step went

scriptVars == <<script, runs, last>>
allScriptVars == <<storeVars, scriptVars>>

ScriptPc == {"idle", "resolve", "clearRead", "clearWrite", "reviewRead", "reviewWrite",
             "work", "markRead", "markWrite"}

(* The phase a script records its failures under (_PHASE).                 *)
PhaseOf(kind) == IF kind \in {"pe_review", "post_schema"} THEN "schema_design" ELSE kind

(* --engine *)
EnginesOf(kind) ==
    CASE kind \in {"analysis", "schema_design"} -> Engines
      [] kind = "pe_review" -> Engines \cup {NoEngine}
      [] OTHER -> {NoEngine}

(* The scripts that call clear_failure_marker.                             *)
ClearsOwnMarker(kind) == kind \notin {"pe_review", "post_schema"}

(* Those that call mark_assignment_reviewed, after resolving the version   *)
(* they work on.                                                           *)
PastTheGate(kind) == kind \in {"schema_design", "synthesis"}

(* require_existing_job: run_collect.py creates the job.                   *)
MayMark(kind) == kind = "collect" \/ JobIsReal

(* An attempt at a phase step: the phase with the engine.                  *)
Attempt == ScriptPhase \X (Engines \cup {NoEngine})

Outcome == {"none", "running", "ok", "failed"}

ScriptFrame == [pc : ScriptPc, kind : ScriptKind, engine : Engines \cup {NoEngine},
                seen : Progression \cup {NoMeta}]

ScriptIdle == [pc |-> "idle", kind |-> "collect", engine |-> NoEngine, seen |-> NoMeta]

(* What an invocation that succeeds leaves.                                *)
Produces(kind) ==
    CASE kind = "collect"       -> {"collector"}
      [] kind = "schema_design" -> {"schema"}
      [] kind = "synthesis"     -> {"report"}
      [] kind = "pe_review"     -> {}
      [] kind = "post_schema"   -> {}
      [] OTHER                  -> {kind}

(* What it cannot succeed without.                                         *)
Requires(kind) ==
    CASE kind = "collect"       -> {}
      [] kind = "triage"        -> {"collector"}
      [] kind = "analysis"      -> {"triage"}
      [] kind = "assignment"    -> {"triage"}
      [] kind = "reality_check" -> {"assignment"}
      [] OTHER                  -> {"collector"}

-----------------------------------------------------------------------------
InScript(self, pc) == script[self].pc = pc
ScriptGoto(self, pc) == script' = [script EXCEPT ![self].pc = pc]
ScriptEnd(self) == script' = [script EXCEPT ![self] = ScriptIdle]
AttemptOf(self) == <<PhaseOf(script[self].kind), script[self].engine>>
Record(self, outcome) == last' = [last EXCEPT ![AttemptOf(self)] = outcome]

(* Where an invocation goes on after clear_failure_marker.                 *)
AfterClear(kind) == IF PastTheGate(kind) THEN "reviewRead" ELSE "work"

(* Reaching the work itself opens a new attempt.                           *)
GoOn(self, pc) ==
    /\ ScriptGoto(self, pc)
    /\ IF pc = "work" THEN Record(self, "running") ELSE UNCHANGED last

(* python scripts/run_<kind>.py [--engine e].  The same step is not run    *)
(* twice at once.  run_pe_review.py and run_post_schema_routing.py refuse  *)
(* a job that does not exist.                                              *)
StartScript(self) ==
    /\ InScript(self, "idle")
    /\ runs < MaxRuns
    /\ runs' = runs + 1
    /\ \E kind \in Kinds : \E e \in EnginesOf(kind) :
          /\ \A other \in ScriptProcs :
                ~InScript(other, "idle") => AttemptOf(other) # <<PhaseOf(kind), e>>
          /\ ~ClearsOwnMarker(kind) => JobIsReal
          /\ script' = [script EXCEPT ![self] =
                [pc |-> IF PastTheGate(kind) THEN "resolve"
                        ELSE IF ClearsOwnMarker(kind) THEN "clearRead" ELSE "work",
                 kind |-> kind, engine |-> e, seen |-> NoMeta]]
          /\ IF ClearsOwnMarker(kind) THEN UNCHANGED last
             ELSE last' = [last EXCEPT ![<<PhaseOf(kind), e>>] = "running"]
    /\ UNCHANGED storeVars

(* _resolve_version, before the script knows its job (_JOB is not set):    *)
(* run_schema_design.py re-routes split writes there.  A failure leaves    *)
(* no marker.                                                              *)
Resolve(self) ==
    /\ InScript(self, "resolve")
    /\ ScriptGoto(self, "clearRead")
    /\ UNCHANGED <<storeVars, runs, last>>

ResolveRaises(self) ==
    /\ InScript(self, "resolve")
    /\ ScriptEnd(self)
    /\ Record(self, "failed")
    /\ UNCHANGED <<storeVars, runs>>

-----------------------------------------------------------------------------
(* clear_failure_marker: the read that decides ...                         *)
ScriptClearReadNoEngine(self) ==    \* a mutant of the next: the engine is left out
    /\ InScript(self, "clearRead")
    /\ LET kind == script[self].kind
       IN  IF MayMark(kind) /\ Clears(marker, kind, NoEngine)
           THEN ScriptGoto(self, "clearWrite") /\ UNCHANGED last
           ELSE GoOn(self, AfterClear(kind))
    /\ UNCHANGED <<storeVars, runs>>

ScriptClearRead(self) ==
    /\ InScript(self, "clearRead")
    /\ LET kind == script[self].kind
       IN  IF MayMark(kind) /\ Clears(marker, kind, script[self].engine)
           THEN ScriptGoto(self, "clearWrite") /\ UNCHANGED last
           ELSE GoOn(self, AfterClear(kind))
    /\ UNCHANGED <<storeVars, runs>>

(* ... and the write, over whatever the marker has become.                 *)
ScriptClearWrite(self) ==
    /\ InScript(self, "clearWrite")
    /\ marker' = PlainMarker("SUPERSEDED")
    /\ GoOn(self, AfterClear(script[self].kind))
    /\ UNCHANGED <<meta, review, arts, runs>>

(* mark_assignment_reviewed: recorded already, or to be recorded where     *)
(* .meta was found or not found.                                           *)
ReviewReadMetaOnly(self) ==    \* a mutant of the next: nothing is recorded without .meta
    /\ InScript(self, "reviewRead")
    /\ IF JobIsReal /\ meta # NoMeta /\ ~ApprovalGiven
       THEN /\ script' = [script EXCEPT ![self].pc = "reviewWrite", ![self].seen = meta]
            /\ UNCHANGED last
       ELSE GoOn(self, "work")
    /\ UNCHANGED <<storeVars, runs>>

ReviewRead(self) ==
    /\ InScript(self, "reviewRead")
    /\ IF JobIsReal /\ ~(IF meta # NoMeta THEN meta["assignment_review"].status = "completed"
                                          ELSE review)
       THEN /\ script' = [script EXCEPT ![self].pc = "reviewWrite", ![self].seen = meta]
            /\ UNCHANGED last
       ELSE GoOn(self, "work")
    /\ UNCHANGED <<storeVars, runs>>

ReviewWriteAhead(self) ==    \* a mutant of the next: the script's own phase is closed too
    /\ InScript(self, "reviewWrite")
    /\ LET seen == script[self].seen
       IN  IF seen = NoMeta
           THEN review' = TRUE /\ UNCHANGED meta
           ELSE /\ meta' = [seen EXCEPT !["assignment_review"].status = "completed",
                                        ![script[self].kind].status = "completed"]
                /\ UNCHANGED review
    /\ script' = [script EXCEPT ![self].pc = "work", ![self].seen = NoMeta]
    /\ Record(self, "running")
    /\ UNCHANGED <<marker, arts, runs>>

(* The whole of .meta as it was read, with the one field merged in; or the *)
(* decision record, when .meta did not exist.                              *)
ReviewWrite(self) ==
    /\ InScript(self, "reviewWrite")
    /\ LET seen == script[self].seen
       IN  IF seen = NoMeta
           THEN review' = TRUE /\ UNCHANGED meta
           ELSE /\ meta' = [seen EXCEPT !["assignment_review"].status = "completed"]
                /\ UNCHANGED review
    /\ script' = [script EXCEPT ![self].pc = "work", ![self].seen = NoMeta]
    /\ Record(self, "running")
    /\ UNCHANGED <<marker, arts, runs>>

-----------------------------------------------------------------------------
(* The phase step itself succeeds ...                                      *)
WorkSucceeds(self) ==
    /\ InScript(self, "work")
    /\ Requires(script[self].kind) \subseteq arts
    /\ arts' = arts \cup Produces(script[self].kind)
    /\ Record(self, "ok")
    /\ ScriptEnd(self)
    /\ UNCHANGED <<meta, marker, review, runs>>

(* ... or ends in _error(), an exception or a Ctrl-C: run_main records it. *)
WorkFails(self) ==
    /\ InScript(self, "work")
    /\ Record(self, "failed")
    /\ ScriptGoto(self, "markRead")
    /\ UNCHANGED <<storeVars, runs>>

(* write_failure_marker: only for a job that is real, never over CANCELLED *)
MarkFailureReadAnyJob(self) ==    \* a mutant of the next: any job
    /\ InScript(self, "markRead")
    /\ IF marker.status # "CANCELLED" THEN ScriptGoto(self, "markWrite") ELSE ScriptEnd(self)
    /\ UNCHANGED <<storeVars, runs, last>>

MarkFailureReadOverCancel(self) ==    \* a mutant of the next: CANCELLED is overwritten
    /\ InScript(self, "markRead")
    /\ IF MayMark(script[self].kind) THEN ScriptGoto(self, "markWrite") ELSE ScriptEnd(self)
    /\ UNCHANGED <<storeVars, runs, last>>

MarkFailureRead(self) ==
    /\ InScript(self, "markRead")
    /\ IF MayMark(script[self].kind) /\ marker.status # "CANCELLED"
       THEN ScriptGoto(self, "markWrite")
       ELSE ScriptEnd(self)
    /\ UNCHANGED <<storeVars, runs, last>>

MarkFailureWrite(self) ==
    /\ InScript(self, "markWrite")
    /\ marker' = FailureMarker(PhaseOf(script[self].kind), script[self].engine)
    /\ ScriptEnd(self)
    /\ UNCHANGED <<meta, review, arts, runs, last>>

(* SIGKILL: nothing is recorded.                                           *)
Kill(self) ==
    /\ Kills
    /\ ~InScript(self, "idle")
    /\ ScriptEnd(self)
    /\ UNCHANGED <<storeVars, runs, last>>

-----------------------------------------------------------------------------
(* A job not yet collected, or one at the review gate that the orchestrator*)
(* knows of or not.                                                        *)
ScriptStoreInit ==
    /\ arts \in {{}, {"collector", "triage", "analysis", "assignment", "reality_check"}}
    /\ meta \in {NoMeta, InferProgression}
    /\ marker = PlainMarker("ABSENT")
    /\ review = FALSE

ScriptInit ==
    /\ script = [self \in ScriptProcs |-> ScriptIdle]
    /\ runs = 0
    /\ last = [a \in Attempt |-> "none"]

ScriptStep(self) ==
    \/ StartScript(self) \/ Resolve(self) \/ ResolveRaises(self)
    \/ ScriptClearRead(self) \/ ScriptClearWrite(self)
    \/ ReviewRead(self) \/ ReviewWrite(self)
    \/ WorkSucceeds(self) \/ WorkFails(self)
    \/ MarkFailureRead(self) \/ MarkFailureWrite(self)
    \/ Kill(self)

ScriptNext == \E self \in ScriptProcs : ScriptStep(self)

ScriptsAloneInit == ScriptStoreInit /\ ScriptInit

ScriptSpec == ScriptsAloneInit /\ [][ScriptNext]_allScriptVars

-----------------------------------------------------------------------------
(* Types *)
ScriptTypeOK ==
    /\ StoreTypeOK
    /\ script \in [ScriptProcs -> ScriptFrame]
    /\ runs \in Nat
    /\ last \in [Attempt -> Outcome]

(***************************************************************************)
(* clear_failure_marker's promise: a FAILED marker names an attempt that   *)
(* failed and was not made again.  Once the phase (and engine) is back at  *)
(* work its failure is gone, whatever the other engines' scripts read and  *)
(* write at the same moment.                                               *)
(***************************************************************************)
FailedMarkerIsCurrent ==
    marker.status = "FAILED" => last[<<marker.phase, marker.engine>>] = "failed"

(***************************************************************************)
(* Schema design and synthesis do their work with the review gate recorded *)
(* as passed, in .meta or in decisions/, even when another script records  *)
(* it at the same moment: the UI never asks for the approval of a job that *)
(* is past it.                                                             *)
(***************************************************************************)
GateRecordedAtWork ==
    \A self \in ScriptProcs :
        InScript(self, "work") /\ PastTheGate(script[self].kind) /\ JobIsReal => ApprovalGiven

(* A mistyped job leaves nothing behind: until collect has written its     *)
(* output, the only marker is collect's own failure.                       *)
NoPhantomJob ==
    ~JobIsReal =>
        /\ marker.status = "FAILED" => marker.phase = "collect"
        /\ ~review
=============================================================================
