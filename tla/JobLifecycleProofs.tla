-------------------------- MODULE JobLifecycleProofs --------------------------
(***************************************************************************)
(* What holds of a job for any number of API, command-line, library and    *)
(* script processes: types, no trace of a job that does not exist, the     *)
(* order of its phases and the artifacts behind a COMPLETED, a cancel that *)
(* stops the API; and, when everybody waits for the others to be done, a   *)
(* cancel that is final, never fabricated, and a resume that clears what   *)
(* its phase failed of.                                                    *)
(***************************************************************************)
EXTENDS JobLifecycle, PhaseOrchestratorProofs, PhaseScriptsProofs

JobTyped == Typed /\ ScriptsTyped /\ cancelling \in BOOLEAN

-----------------------------------------------------------------------------
(***************************************************************************)
(* What a step of each actor does to the files the others read             *)
(***************************************************************************)

(* A step of the orchestrator: the marker is superseded, or written for a  *)
(* failure, where the step before has read it.                             *)
LEMMA OrchestratorFacts ==
  ASSUME Typed, NEW self \in Procs, Step(self)
  PROVE  /\ arts \subseteq arts' /\ review' = review
         /\ \A other \in Procs \ {self} : orch'[other] = orch[other]
         /\ \/ marker' = marker
            \/ At(self, "clearWrite") /\ marker' = PlainMarker("SUPERSEDED")
            \/ At(self, "markWrite") /\ marker' = FailureMarker(orch[self].cur, NoEngine)
         /\ orch'[self].pc = "clearWrite" => JobIsReal /\ marker.status = "FAILED"
         /\ orch'[self].pc = "markWrite" => JobIsReal /\ marker.status # "CANCELLED"
<1>1. orch \in [Procs -> Frame]
  BY DEF Typed, FramesOK
<1>2. CASE ResumePhase(self) \/ ConfirmAll(self) \/ StartJob(self)
  BY <1>1, <1>2 DEF ResumePhase, ConfirmAll, StartJob, Call, storeVars
<1>3. CASE AssessSchemaDesign(self) \/ AssessSynthesis(self) \/ RoutingRaises(self)
  BY <1>1, <1>3 DEF AssessSchemaDesign, AssessSynthesis, RoutingRaises, AssessFrame, Goto, storeVars, At, Frame
<1>4. CASE GetProgression(self) \/ AdoptAssessed(self)
  BY <1>1, <1>4 DEF GetProgression, AdoptAssessed, GotoWith, storeVars, At, Frame
<1>5. CASE MarkRead(self)
  BY <1>1, <1>5 DEF MarkRead, Goto, Return, Idle, storeVars, Frame
<1>6. CASE MarkWrite(self)
  BY <1>1, <1>6 DEF MarkWrite, Return, Idle
<1>7. CASE Descend(self)
  BY <1>1, <1>7 DEF Descend, Goto, NextFrame, At, Frame
<1>8. CASE Reload(self)
  BY <1>1, <1>8 DEF Reload, Frame
<1>9. CASE Validate(self)
  BY <1>1, <1>9 DEF Validate, Raise, Goto, Return, Idle, Frame
<1>10. CASE ClearRead(self)
  <2>1. /\ UNCHANGED storeVars
        /\ \/ \E pc \in {"begin", "getProgression", "load"} : Goto(self, pc)
           \/ JobIsReal /\ marker.status = "FAILED" /\ Goto(self, "clearWrite")
           \/ At(self, "clearRead") /\ orch' = [orch EXCEPT ![self].clears = Tail(orch[self].clears)]
    BY <1>10, Zenon DEF ClearRead, Clears
  <2> QED
    BY <1>1, <2>1 DEF Goto, storeVars, At, Frame
<1>11. CASE ClearWrite(self)
  BY <1>1, <1>11 DEF ClearWrite, Frame
<1>12. CASE Load(self) \/ Begin(self) \/ ConfirmLoad(self)
  BY <1>1, <1>12 DEF Load, Begin, ConfirmLoad, GotoWith, Return, Idle, Frame
<1>13. CASE RunReturns(self) \/ RunExits(self)
  BY <1>1, <1>13 DEF RunReturns, RunExits, Goto, Return, Idle, storeVars, Frame
<1>19. CASE RunRaises(self)
  <2>1. arts \subseteq arts' /\ UNCHANGED <<marker, review>> /\ (Return(self) \/ Goto(self, "fail"))
    BY <1>19 DEF RunRaises
  <2> QED
    BY <1>1, <2>1 DEF Goto, Return, Idle, Frame
<1>14. CASE Fail(self)
  BY <1>1, <1>14 DEF Fail, Raise, Goto, Return, Idle, Frame
<1>15. CASE FinishPrerequisite(self)
  BY <1>1, <1>15 DEF FinishPrerequisite, NextFrame, Frame
<1>16. CASE FinishResume(self)
  BY <1>1, <1>16 DEF FinishResume, Goto, Return, Idle, Frame
<1>17. CASE FinishStart(self)
  BY <1>1, <1>17 DEF FinishStart, Return, Idle, Frame
<1>18. CASE ConfirmSave(self) \/ Crash(self)
  BY <1>1, <1>18 DEF ConfirmSave, Crash, Return, Idle, storeVars
<1> QED
  BY <1>2, <1>3, <1>4, <1>5, <1>6, <1>7, <1>8, <1>9, <1>10, <1>11, <1>12, <1>13, <1>14, <1>15,
     <1>16, <1>17, <1>18, <1>19 DEF Step, Advance

(* A process at rest can only make a call.                                 *)
LEMMA FromIdle ==
  ASSUME NEW self \in Procs, Step(self), At(self, "idle")
  PROVE  ResumePhase(self) \/ ConfirmAll(self) \/ StartJob(self) \/ AssessSchemaDesign(self)
  BY DEF Step, Advance, AssessSynthesis, RoutingRaises, GetProgression, AdoptAssessed, MarkRead,
         MarkWrite, Descend, Reload, Validate, ClearRead, ClearWrite, Load, Begin, RunReturns,
         RunRaises, RunExits, Fail, FinishPrerequisite, FinishResume, FinishStart, ConfirmLoad,
         ConfirmSave, Crash, At

(* A step of a script.                                                     *)
LEMMA ScriptFacts ==
  ASSUME StoreAssumption, ScriptAssumption, ScriptsTyped, NEW self \in ScriptProcs, ScriptStep(self)
  PROVE  /\ arts \subseteq arts'
         /\ \A other \in ScriptProcs \ {self} : script'[other] = script[other]
         /\ \/ marker' = marker
            \/ InScript(self, "clearWrite") /\ marker' = PlainMarker("SUPERSEDED")
            \/ /\ InScript(self, "markWrite")
               /\ marker' = FailureMarker(PhaseOf(script[self].kind), script[self].engine)
         /\ script'[self].pc = "clearWrite" => marker.status = "FAILED"
         /\ script'[self].pc = "markWrite" => marker.status # "CANCELLED"
<1>1. script \in [ScriptProcs -> ScriptFrame]
  BY DEF ScriptsTyped, ScriptTypeOK
<1>2. CASE StartScript(self)
  BY <1>1, <1>2 DEF StartScript, storeVars
<1>3. CASE Resolve(self) \/ ResolveRaises(self)
  BY <1>1, <1>3 DEF Resolve, ResolveRaises, ScriptGoto, ScriptEnd, ScriptIdle, storeVars, ScriptFrame
<1>4. CASE ScriptClearRead(self)
  BY <1>1, <1>4 DEF ScriptClearRead, GoOn, AfterClear, Clears, ScriptGoto, storeVars, ScriptFrame
<1>5. CASE ScriptClearWrite(self)
  BY <1>1, <1>5 DEF ScriptClearWrite, GoOn, AfterClear, ScriptGoto, ScriptFrame
<1>6. CASE ReviewRead(self) \/ ReviewWrite(self)
  BY <1>1, <1>6 DEF ReviewRead, ReviewWrite, GoOn, ScriptGoto, storeVars, ScriptFrame
<1>7. CASE WorkSucceeds(self) \/ WorkFails(self)
  BY <1>1, <1>7 DEF WorkSucceeds, WorkFails, ScriptGoto, ScriptEnd, ScriptIdle, storeVars, ScriptFrame
<1>8. CASE MarkFailureRead(self)
  BY <1>1, <1>8 DEF MarkFailureRead, ScriptGoto, ScriptEnd, ScriptIdle, storeVars, ScriptFrame
<1>9. CASE MarkFailureWrite(self) \/ Kill(self)
  BY <1>1, <1>9 DEF MarkFailureWrite, Kill, ScriptEnd, ScriptIdle, storeVars
<1> QED
  BY <1>2, <1>3, <1>4, <1>5, <1>6, <1>7, <1>8, <1>9 DEF ScriptStep
-----------------------------------------------------------------------------
(***************************************************************************)
(* Types                                                                   *)
(***************************************************************************)

LEMMA JobTypedInit == JobInit => JobTyped
<1> SUFFICES ASSUME JobInit PROVE JobTyped
  OBVIOUS
<1>1. ScriptsTyped
  BY StoreAssumption, ScriptsTypedInit DEF JobInit, ScriptsAloneInit
<1>2. StoreTypeOK /\ calls \in Nat /\ unlocked \subseteq Phase
  BY <1>1 DEF JobInit, ScriptsTyped, ScriptTypeOK, Startable
<1>3. orch \in [Procs -> Frame] /\ \A self \in Procs : FrameOK(orch[self])
  BY IdleType DEF JobInit
<1> QED
  BY <1>1, <1>2, <1>3 DEF JobInit, JobTyped, Typed, FilesOK, FramesOK

LEMMA JobTypedNext == JobTyped /\ [JobNext]_jobVars => JobTyped'
<1> SUFFICES ASSUME JobTyped, [JobNext]_jobVars PROVE JobTyped'
  OBVIOUS
<1>1. ASSUME UNCHANGED <<storeVars, orchVars, scriptVars>>, cancelling' \in BOOLEAN
      PROVE  JobTyped'
  BY <1>1 DEF JobTyped, Typed, FilesOK, FramesOK, StoreTypeOK, ScriptsTyped, ScriptTypeOK,
              ScriptFrameOK, Busy, InScript, storeVars, orchVars, scriptVars
<1>2. CASE UNCHANGED jobVars
  BY <1>1, <1>2 DEF jobVars, JobTyped
<1>3. CASE Cancel
  <2>1. CASE CancelRead
    BY <1>1, <2>1 DEF CancelRead
  <2>2. CASE CancelWrite
    <3>1. PlainMarker("CANCELLED") \in Marker
      BY DEF PlainMarker, Marker, MarkerStatus
    <3>2. /\ UNCHANGED <<meta, review, arts, orch, calls, unlocked, script, runs, last>>
          /\ marker' \in Marker /\ cancelling' \in BOOLEAN
      BY <2>2, <3>1 DEF CancelWrite, orchVars, scriptVars
    <3> QED
      BY <3>2 DEF JobTyped, Typed, FilesOK, FramesOK, StoreTypeOK, ScriptsTyped, ScriptTypeOK,
                  ScriptFrameOK, Busy, InScript
  <2> QED
    BY <1>3, <2>1, <2>2 DEF Cancel
<1>4. ASSUME NEW self \in Procs, OrchestratorStep(self)
      PROVE  JobTyped'
  <2>1. Typed'
    BY <1>4, TypedStep DEF JobTyped, OrchestratorStep
  <2>2. StoreTypeOK' /\ UNCHANGED <<script, runs, last, cancelling>>
    BY <1>4, <2>1 DEF OrchestratorStep, scriptVars, Typed, FilesOK
  <2> QED
    BY <2>1, <2>2 DEF JobTyped, ScriptsTyped, ScriptTypeOK, ScriptFrameOK, Busy, InScript
<1>5. ASSUME NEW self \in ScriptProcs, ScriptActs(self)
      PROVE  JobTyped'
  <2>1. ScriptsTyped'
    BY <1>5, StoreAssumption, ScriptAssumption, ScriptStepKeepsTypes DEF JobTyped, ScriptActs
  <2>2. StoreTypeOK' /\ UNCHANGED <<orch, calls, cancelling>> /\ unlocked' \subseteq Phase
    BY <1>5, <2>1 DEF ScriptActs, ScriptsTyped, ScriptTypeOK, JobTyped, Typed, FilesOK, Startable
  <2> QED
    BY <2>1, <2>2 DEF JobTyped, Typed, FilesOK, FramesOK
<1> QED
  BY <1>2, <1>3, <1>4, <1>5 DEF JobNext

LEMMA JobTyping == JobSpec => []JobTyped
  BY JobTypedInit, JobTypedNext, PTL DEF JobSpec

(* The types of all that the actors of a job keep, each writing over what  *)
(* the others wrote.                                                       *)
THEOREM JobTypes == JobSpec => [](TypeOK /\ ScriptTypeOK)
<1>1. JobTyped => TypeOK /\ ScriptTypeOK
  BY DEF JobTyped, Typed, FilesOK, FramesOK, TypeOK, ScriptsTyped
<1> QED
  BY <1>1, JobTyping, PTL

-----------------------------------------------------------------------------
(***************************************************************************)
(* A cancel stops the API                                                  *)
(***************************************************************************)

(* From the moment a cancel has read the status, no call of the API is     *)
(* under way.                                                              *)
Stopped == cancelling \/ marker.status = "CANCELLED" => ApiIdle

(* No actor but the cancel writes CANCELLED.                               *)
LEMMA CancelledBy ==
  ASSUME JobTyped, [JobNext]_jobVars, marker'.status = "CANCELLED"
  PROVE  marker' = marker \/ CancelWrite
<1>1. ASSUME NEW self \in Procs, OrchestratorStep(self) PROVE marker' = marker
  BY <1>1, OrchestratorFacts DEF OrchestratorStep, JobTyped, PlainMarker, FailureMarker
<1>2. ASSUME NEW self \in ScriptProcs, ScriptActs(self) PROVE marker' = marker
  BY <1>2, StoreAssumption, ScriptAssumption, ScriptFacts DEF ScriptActs, JobTyped, PlainMarker, FailureMarker
<1> QED
  BY <1>1, <1>2 DEF JobNext, Cancel, CancelRead, jobVars, storeVars

LEMMA StoppedNext == JobTyped /\ Stopped /\ [JobNext]_jobVars => Stopped'
<1> SUFFICES ASSUME JobTyped, Stopped, [JobNext]_jobVars PROVE Stopped'
  OBVIOUS
<1>1. CASE orch' = orch /\ (cancelling' => ApiIdle)
  BY <1>1, CancelledBy DEF Stopped, ApiIdle, At, CancelWrite
<1>2. CASE UNCHANGED jobVars \/ Cancel
  BY <1>1, <1>2 DEF jobVars, orchVars, Cancel, CancelRead, CancelWrite, Stopped
<1>3. ASSUME NEW self \in ScriptProcs, ScriptActs(self) PROVE Stopped'
  BY <1>1, <1>3 DEF ScriptActs, Stopped
<1>4. ASSUME NEW self \in Procs, OrchestratorStep(self) PROVE Stopped'
  <2>1. Step(self) /\ cancelling' = cancelling /\ (self \in ApiProcs => ~cancelling)
    BY <1>4 DEF OrchestratorStep
  <2>2. \A other \in Procs \ {self} : orch'[other] = orch[other]
    BY <2>1, OrchestratorFacts DEF JobTyped
  <2>3. CASE self \notin ApiProcs
    <3>1. ApiIdle => ApiIdle'
      BY <2>2, <2>3 DEF ApiIdle, At, Procs
    <3>2. marker'.status = "CANCELLED" => marker.status = "CANCELLED"
      BY <1>4, <2>1, CancelledBy, OrchestratorFacts DEF JobTyped, PlainMarker, FailureMarker
    <3> QED
      BY <2>1, <3>1, <3>2 DEF Stopped
  <2>4. CASE self \in ApiProcs
    <3>1. SUFFICES ASSUME marker'.status = "CANCELLED" PROVE FALSE
      BY <2>1, <2>4 DEF Stopped
    <3>2. marker.status = "CANCELLED"
      BY <2>1, <3>1, OrchestratorFacts DEF JobTyped, PlainMarker, FailureMarker
    <3>3. At(self, "idle")
      BY <2>4, <3>2 DEF Stopped, ApiIdle
    <3> QED
      BY <2>1, <2>4, <3>2, <3>3, FromIdle, LifecycleAssumption
         DEF ResumePhase, ConfirmAll, StartJob, AssessSchemaDesign
  <2> QED
    BY <2>3, <2>4
<1> QED
  BY <1>2, <1>3, <1>4 DEF JobNext

(* A job that shows as CANCELLED is one no process of the API works on,    *)
(* whatever scripts and command lines do to it at the same time.           *)
THEOREM CancelStopsApi == JobSpec => []CancelledStopsApi
<1>1. JobInit => Stopped
  BY DEF JobInit, ScriptStoreInit, PlainMarker, Stopped
<1>2. Stopped => CancelledStopsApi
  BY DEF Stopped, CancelledStopsApi
<1> QED
  BY <1>1, <1>2, StoppedNext, JobTyping, PTL DEF JobSpec

-----------------------------------------------------------------------------
(***************************************************************************)
(* No phantom job                                                          *)
(***************************************************************************)

(* The scripts' invariant, and what run_assessment.py has checked before   *)
(* it writes a marker.                                                     *)
NoPhantom ==
    /\ PhantomInv
    /\ \A self \in Procs : At(self, "markWrite") => JobIsReal

LEMMA NoPhantomNext == JobTyped /\ NoPhantom /\ [JobNext]_jobVars => NoPhantom'
<1> SUFFICES ASSUME JobTyped, NoPhantom, [JobNext]_jobVars PROVE NoPhantom'
  OBVIOUS
<1>1. ASSUME UNCHANGED <<script, orch, review, arts>>,
             marker' = marker \/ marker' = PlainMarker("CANCELLED")
      PROVE  NoPhantom'
  BY <1>1 DEF NoPhantom, PhantomInv, NoPhantomJob, ChecksHold, InScript, MayMark, JobIsReal, At,
              PlainMarker
<1>2. CASE UNCHANGED jobVars \/ Cancel
  BY <1>1, <1>2 DEF jobVars, storeVars, orchVars, scriptVars, Cancel, CancelRead, CancelWrite
<1>3. ASSUME NEW self \in Procs, OrchestratorStep(self) PROVE NoPhantom'
  <2>1. /\ arts \subseteq arts' /\ review' = review
        /\ \A other \in Procs \ {self} : orch'[other] = orch[other]
        /\ \/ marker' = marker \/ marker'.status # "FAILED"
           \/ At(self, "markWrite")
        /\ orch'[self].pc = "markWrite" => JobIsReal
    BY <1>3, OrchestratorFacts DEF OrchestratorStep, JobTyped, PlainMarker
  <2>2. JobIsReal => JobIsReal'
    BY <2>1 DEF JobIsReal
  <2>3. NoPhantomJob'
    BY <2>1, <2>2 DEF NoPhantom, PhantomInv, NoPhantomJob
  <2>4. script' = script
    BY <1>3 DEF OrchestratorStep, scriptVars
  <2> QED
    BY <2>1, <2>2, <2>3, <2>4 DEF NoPhantom, PhantomInv, ChecksHold, InScript, MayMark, At
<1>4. ASSUME NEW self \in ScriptProcs, ScriptActs(self) PROVE NoPhantom'
  <2>1. PhantomInv'
    BY <1>4, StoreAssumption, ScriptAssumption, PhantomStep DEF ScriptActs, JobTyped, NoPhantom
  <2>2. arts \subseteq arts' /\ orch' = orch
    BY <1>4, StoreAssumption, ScriptAssumption, ScriptFacts DEF ScriptActs, JobTyped
  <2> QED
    BY <2>1, <2>2 DEF NoPhantom, At, JobIsReal
<1> QED
  BY <1>2, <1>3, <1>4 DEF JobNext

LEMMA NoPhantomInvariant == JobSpec => []NoPhantom
<1>1. JobInit => NoPhantom
  BY PhantomInit DEF JobInit, ScriptsAloneInit, NoPhantom, Idle, At
<1> QED
  BY <1>1, NoPhantomNext, JobTyping, PTL DEF JobSpec

(* With the orchestrator, the command line and cancels at work beside the  *)
(* scripts, a job that does not exist still gets no marker but collect's   *)
(* own and no review record.                                               *)
THEOREM JobOfAPhantom == JobSpec => []NoPhantomJob
<1>1. NoPhantom => NoPhantomJob
  BY DEF NoPhantom, PhantomInv
<1> QED
  BY <1>1, NoPhantomInvariant, PTL
-----------------------------------------------------------------------------
(***************************************************************************)
(* The phases of a job that scripts work on as well                        *)
(***************************************************************************)

(* What scripts write to .meta lets a phase start at most.                 *)
LEMMA JobOrderNext == JobTyped /\ Order /\ [JobNext]_jobVars => Order'
<1> SUFFICES ASSUME JobTyped, Order, [JobNext]_jobVars PROVE Order'
  OBVIOUS
<1>1. CASE UNCHANGED jobVars \/ Cancel
  <2>1. UNCHANGED <<meta, unlocked, orch>>
    BY <1>1 DEF jobVars, storeVars, orchVars, Cancel, CancelRead, CancelWrite
  <2> QED
    BY <2>1 DEF Order, StoredUnlocked, Startable, Unmet, PrerequisiteMet, Allowed
<1>2. ASSUME NEW self \in Procs, OrchestratorStep(self) PROVE Order'
  BY <1>2, OrderStep DEF OrchestratorStep, JobTyped
<1>3. ASSUME NEW self \in ScriptProcs, ScriptActs(self) PROVE Order'
  <2>1. orch' = orch /\ unlocked' = IF meta' = meta THEN unlocked ELSE unlocked \cup Startable(meta')
    BY <1>3 DEF ScriptActs
  <2>2. StoredUnlocked' /\ unlocked \subseteq unlocked'
    <3>1. CASE meta' = meta
      BY <2>1, <3>1 DEF Order, StoredUnlocked, Startable, Unmet, PrerequisiteMet
    <3>2. CASE meta' # meta
      BY <2>1, <3>2 DEF Order, StoredUnlocked, Startable, Unmet, PrerequisiteMet
    <3> QED
      BY <3>1, <3>2
  <2> QED
    BY <2>1, <2>2 DEF Order, Allowed
<1> QED
  BY <1>1, <1>2, <1>3 DEF JobNext

(* No phase is begun, run or finished ahead of its turn, whatever scripts  *)
(* write over .meta meanwhile.                                             *)
THEOREM JobPhasesInOrder == JobSpec => []RunsOnlyUnlocked
<1>1. JobInit => Order
  <2> SUFFICES ASSUME JobInit PROVE Order
    OBVIOUS
  <2>1. "collect_triage" \in Startable(NewProgression)
    BY DEF Startable, Unmet, Prerequisites, Phase
  <2>2. StoredUnlocked
    BY <2>1 DEF JobInit, StoredUnlocked
  <2>3. \A self \in Procs : Allowed(orch[self])
    BY DEF JobInit, Idle, Allowed, AtWork
  <2> QED
    BY <2>2, <2>3 DEF Order
<1>2. JobTyped /\ Order => RunsOnlyUnlocked
  BY DEF JobTyped, Typed, FramesOK, FrameOK, Order, Allowed, RunsOnlyUnlocked, AtWork
<1> QED
  BY <1>1, <1>2, JobOrderNext, JobTyping, PTL DEF JobSpec

(* The copies of .meta that scripts will write back are backed as well.    *)
SeenBacked(self) == script[self].seen # NoMeta => Backed(script[self].seen)

JobBacked == BackedInv /\ \A self \in ScriptProcs : SeenBacked(self)

(* A script takes .meta as it is, or goes on with what it saw or nothing.  *)
LEMMA ScriptSeen ==
  ASSUME ScriptsTyped, NEW self \in ScriptProcs, ScriptStep(self)
  PROVE  /\ script'[self].seen \in {NoMeta, meta, script[self].seen}
         /\ \/ meta' = meta
            \/ /\ script[self].seen # NoMeta
               /\ meta' = [script[self].seen EXCEPT !["assignment_review"].status = "completed"]
         /\ \/ arts' = arts
            \/ /\ Requires(script[self].kind) \subseteq arts
               /\ arts' = arts \cup Produces(script[self].kind)
<1>1. script \in [ScriptProcs -> ScriptFrame]
  BY DEF ScriptsTyped, ScriptTypeOK
<1>2. CASE StartScript(self)
  BY <1>1, <1>2 DEF StartScript, storeVars
<1>3. CASE Resolve(self) \/ ResolveRaises(self)
  BY <1>1, <1>3 DEF Resolve, ResolveRaises, ScriptGoto, ScriptEnd, ScriptIdle, storeVars, ScriptFrame
<1>4. CASE ScriptClearRead(self)
  BY <1>1, <1>4 DEF ScriptClearRead, GoOn, ScriptGoto, storeVars, ScriptFrame
<1>5. CASE ScriptClearWrite(self)
  BY <1>1, <1>5 DEF ScriptClearWrite, GoOn, ScriptGoto, ScriptFrame
<1>6. CASE ReviewRead(self)
  BY <1>1, <1>6 DEF ReviewRead, GoOn, ScriptGoto, storeVars, ScriptFrame
<1>7. CASE ReviewWrite(self)
  BY <1>1, <1>7 DEF ReviewWrite, ScriptFrame
<1>8. CASE WorkSucceeds(self) \/ WorkFails(self)
  BY <1>1, <1>8 DEF WorkSucceeds, WorkFails, ScriptGoto, ScriptEnd, ScriptIdle, storeVars, ScriptFrame
<1>9. CASE MarkFailureRead(self)
  BY <1>1, <1>9 DEF MarkFailureRead, ScriptGoto, ScriptEnd, ScriptIdle, storeVars, ScriptFrame
<1>10. CASE MarkFailureWrite(self) \/ Kill(self)
  BY <1>1, <1>10 DEF MarkFailureWrite, Kill, ScriptEnd, ScriptIdle, storeVars
<1> QED
  BY <1>2, <1>3, <1>4, <1>5, <1>6, <1>7, <1>8, <1>9, <1>10 DEF ScriptStep

LEMMA JobBackedNext == JobTyped /\ JobBacked /\ [JobNext]_jobVars => JobBacked'
<1> SUFFICES ASSUME JobTyped, JobBacked, [JobNext]_jobVars PROVE JobBacked'
  OBVIOUS
<1>1. CASE UNCHANGED jobVars \/ Cancel
  <2>1. UNCHANGED <<meta, arts, orch, script>>
    BY <1>1 DEF jobVars, storeVars, orchVars, scriptVars, Cancel, CancelRead, CancelWrite
  <2> QED
    BY <2>1 DEF JobBacked, BackedInv, StoreBacked, Knows, Backed, SeenBacked
<1>2. ASSUME NEW self \in Procs, OrchestratorStep(self) PROVE JobBacked'
  <2>1. BackedInv'
    BY <1>2, BackedStep DEF OrchestratorStep, JobTyped, JobBacked
  <2>2. arts \subseteq arts' /\ script' = script
    BY <1>2, OrchestratorFacts DEF OrchestratorStep, JobTyped, scriptVars
  <2> QED
    BY <2>1, <2>2 DEF JobBacked, SeenBacked, Backed
<1>3. ASSUME NEW self \in ScriptProcs, ScriptActs(self) PROVE JobBacked'
  <2>1. ScriptsTyped /\ ScriptStep(self) /\ orch' = orch
    BY <1>3 DEF ScriptActs, JobTyped
  <2>2. /\ arts \subseteq arts'
        /\ \A other \in ScriptProcs \ {self} : script'[other] = script[other]
    BY <2>1, StoreAssumption, ScriptAssumption, ScriptFacts
  <2>3. "triage" \in arts' => "collector" \in arts'
    <3>1. "triage" \in arts => "collector" \in arts
      BY DEF JobBacked, BackedInv, StoreBacked
    <3>2. script[self].kind \in ScriptKind
      BY DEF JobTyped, ScriptsTyped, ScriptTypeOK, ScriptFrame
    <3>3. "triage" \in Produces(script[self].kind) => "collector" \in Requires(script[self].kind)
      BY <3>2 DEF ScriptKind, Produces, Requires
    <3> QED
      BY <2>1, <3>1, <3>3, ScriptSeen
  <2>4. meta' # NoMeta => Backed(meta')
    <3>1. CASE meta' = meta
      BY <3>1 DEF JobBacked, BackedInv, StoreBacked
    <3>2. CASE meta' # meta
      <4> DEFINE seen == script[self].seen
      <4>1. seen # NoMeta /\ meta' = [seen EXCEPT !["assignment_review"].status = "completed"]
        BY <2>1, <3>2, ScriptSeen
      <4>2. Backed(seen) /\ seen \in Progression
        BY <4>1 DEF JobBacked, SeenBacked, JobTyped, ScriptsTyped, ScriptTypeOK, ScriptFrame
      <4> HIDE DEF seen
      <4> QED
        BY <4>1, <4>2 DEF Backed, Progression, Phase
    <3> QED
      BY <3>1, <3>2
  <2>5. StoreBacked'
    BY <2>2, <2>3, <2>4 DEF StoreBacked, Backed
  <2>6. \A p \in Procs : Knows(orch[p])'
    <3> TAKE p \in Procs
    <3>1. Knows(orch[p]) /\ orch'[p] = orch[p]
      BY <2>1 DEF JobBacked, BackedInv
    <3>2. Backed(orch[p].prog)'
      BY <2>2, <3>1, BackedGrows DEF Knows, Backed
    <3> QED
      BY <2>2, <3>1, <3>2 DEF Knows
  <2>7. SeenBacked(self)'
    <3>1. script'[self].seen # NoMeta => Backed(script'[self].seen)
      BY <2>1, ScriptSeen DEF JobBacked, BackedInv, StoreBacked, SeenBacked
    <3> QED
      BY <2>2, <3>1 DEF SeenBacked, Backed
  <2>8. \A other \in ScriptProcs \ {self} : SeenBacked(other)'
    BY <2>2 DEF JobBacked, SeenBacked, Backed
  <2> QED
    BY <2>5, <2>6, <2>7, <2>8 DEF JobBacked, BackedInv
<1> QED
  BY <1>1, <1>2, <1>3 DEF JobNext

(* COMPLETED stays backed by the artifact of the phase while scripts merge *)
(* what they read of .meta earlier back into it.                           *)
THEOREM JobCompletedHasOutput == JobSpec => []CompletedIsBacked
<1>1. JobInit => JobBacked
  <2> SUFFICES ASSUME JobInit PROVE JobBacked
    OBVIOUS
  <2>1. "triage" \in arts => "collector" \in arts
    BY DEF JobInit, ScriptStoreInit
  <2>2. Backed(InferProgression)
    BY DEF Backed, InferProgression, InferredPhases, Phase, JobInit, ScriptStoreInit
  <2>3. StoreBacked
    BY <2>1, <2>2 DEF JobInit, ScriptStoreInit, StoreBacked
  <2>4. \A self \in Procs : Knows(orch[self])
    BY NewBacked DEF JobInit, Idle, Knows
  <2>5. \A self \in ScriptProcs : SeenBacked(self)
    BY DEF JobInit, ScriptInit, ScriptIdle, SeenBacked
  <2> QED
    BY <2>3, <2>4, <2>5 DEF JobBacked, BackedInv
<1>2. JobBacked => CompletedIsBacked
  BY DEF JobBacked, BackedInv, StoreBacked, Knows, CompletedIsBacked
<1> QED
  BY <1>1, <1>2, JobBackedNext, JobTyping, PTL DEF JobSpec
-----------------------------------------------------------------------------
(***************************************************************************)
(* Everybody waits for the others                                          *)
(***************************************************************************)

ProcsIdle == \A p \in Procs : At(p, "idle")

(* One actor is at work at a time.                                         *)
Turns ==
    /\ cancelling => ScriptsIdle /\ ProcsIdle
    /\ \A p \in Procs : ~At(p, "idle") => ScriptsIdle /\ OthersIdle(p)
    /\ \A s \in ScriptProcs : ~InScript(s, "idle") =>
          \A other \in ScriptProcs \ {s} : InScript(other, "idle")

(* What writes the marker has read a job that is not cancelled.            *)
Fresh ==
    /\ \A p \in Procs : orch[p].pc \in {"clearWrite", "markWrite"} => marker.status # "CANCELLED"
    /\ \A s \in ScriptProcs : script[s].pc \in {"clearWrite", "markWrite"} =>
          marker.status # "CANCELLED"

LEMMA TurnsNext ==
  ASSUME ~Overlap, JobTyped, Turns, Fresh, [JobNext]_jobVars
  PROVE  Turns' /\ Fresh'
<1>1. CASE UNCHANGED jobVars
  BY <1>1 DEF jobVars, storeVars, orchVars, scriptVars, Turns, Fresh, ScriptsIdle, ProcsIdle,
              OthersIdle, InScript, At
<1>2. CASE Cancel
  <2>1. UNCHANGED <<orch, script>>
    BY <1>2 DEF Cancel, CancelRead, CancelWrite, orchVars, scriptVars
  <2>2. CASE CancelRead
    <3>1. UNCHANGED marker /\ ScriptsIdle /\ ProcsIdle
      BY <1>2, <2>2 DEF Cancel, CancelRead, CancelWrite, storeVars, ProcsIdle
    <3> QED
      BY <2>1, <3>1 DEF Turns, Fresh, ScriptsIdle, ProcsIdle, OthersIdle, InScript, At
  <2>3. CASE CancelWrite
    <3>1. cancelling /\ ~cancelling'
      BY <2>3 DEF CancelWrite
    <3> QED
      BY <2>1, <3>1 DEF Turns, Fresh, ScriptsIdle, ProcsIdle, OthersIdle, InScript, At
  <2> QED
    BY <1>2, <2>2, <2>3 DEF Cancel
<1>3. ASSUME NEW self \in Procs, OrchestratorStep(self) PROVE Turns' /\ Fresh'
  <2>1. /\ ScriptsIdle /\ OthersIdle(self) /\ ~cancelling /\ ~cancelling' /\ script' = script
        /\ Step(self)
    BY <1>3 DEF OrchestratorStep, scriptVars
  <2>2. /\ \A other \in Procs \ {self} : orch'[other] = orch[other]
        /\ \/ marker' = marker
           \/ orch[self].pc \in {"clearWrite", "markWrite"}
        /\ orch'[self].pc = "clearWrite" => marker.status # "CANCELLED"
        /\ orch'[self].pc = "markWrite" => marker.status # "CANCELLED"
        /\ marker'.status # "CANCELLED" \/ marker' = marker
    BY <2>1, OrchestratorFacts DEF JobTyped, At, PlainMarker, FailureMarker
  <2>3. Turns'
    BY <2>1, <2>2 DEF Turns, ScriptsIdle, ProcsIdle, OthersIdle, InScript, At
  <2>4. Fresh'
    BY <2>1, <2>2 DEF Fresh, ScriptsIdle, OthersIdle, InScript, At
  <2> QED
    BY <2>3, <2>4
<1>4. ASSUME NEW self \in ScriptProcs, ScriptActs(self) PROVE Turns' /\ Fresh'
  <2>1. /\ \A other \in ScriptProcs \ {self} : InScript(other, "idle")
        /\ ProcsIdle /\ ~cancelling /\ ~cancelling' /\ orch' = orch /\ ScriptStep(self)
    BY <1>4 DEF ScriptActs, ProcsIdle
  <2>2. /\ \A other \in ScriptProcs \ {self} : script'[other] = script[other]
        /\ script'[self].pc = "clearWrite" => marker.status # "CANCELLED"
        /\ script'[self].pc = "markWrite" => marker.status # "CANCELLED"
        /\ marker'.status # "CANCELLED" \/ marker' = marker
    BY <2>1, StoreAssumption, ScriptAssumption, ScriptFacts DEF JobTyped, PlainMarker, FailureMarker
  <2>3. Turns'
    BY <2>1, <2>2 DEF Turns, ScriptsIdle, ProcsIdle, OthersIdle, InScript, At
  <2>4. Fresh'
    BY <2>1, <2>2 DEF Fresh, ProcsIdle, InScript, At
  <2> QED
    BY <2>3, <2>4
<1> QED
  BY <1>1, <1>2, <1>3, <1>4 DEF JobNext

LEMMA TurnsInvariant ==
  ASSUME ~Overlap
  PROVE  JobSpec => [](Turns /\ Fresh)
<1>1. JobInit => Turns /\ Fresh
  BY DEF JobInit, ScriptInit, ScriptIdle, Idle, Turns, Fresh, ScriptsIdle, ProcsIdle, OthersIdle,
         InScript, At
<1>2. JobTyped /\ Turns /\ Fresh /\ [JobNext]_jobVars => Turns' /\ Fresh'
  BY TurnsNext
<1> QED
  BY <1>1, <1>2, JobTyping, PTL DEF JobSpec

(* The status shown is CANCELLED where the marker says so.                 *)
LEMMA ShowsCancelled == InferStatus = "CANCELLED" <=> marker.status = "CANCELLED"
  BY DEF InferStatus

LEMMA ShowsAfter == (InferStatus = "CANCELLED")' <=> (marker.status = "CANCELLED")'
  BY ShowsCancelled, PTL

(* Once CANCELLED, always CANCELLED: no step of a script, of the command   *)
(* line or of the API writes over the marker.                              *)
THEOREM CancelIsFinal ==
  ASSUME ~Overlap
  PROVE  JobSpec => CancelledIsFinal
<1>1. JobTyped /\ Turns /\ Fresh /\ [JobNext]_jobVars =>
         [InferStatus = "CANCELLED" => InferStatus' = "CANCELLED"]_jobVars
  <2> SUFFICES ASSUME JobTyped, Turns, Fresh, [JobNext]_jobVars, marker.status = "CANCELLED"
               PROVE  marker'.status = "CANCELLED"
    BY ShowsCancelled, ShowsAfter
  <2>1. ASSUME NEW self \in Procs, OrchestratorStep(self) PROVE marker' = marker
    BY <2>1, OrchestratorFacts DEF OrchestratorStep, JobTyped, Fresh, At
  <2>2. ASSUME NEW self \in ScriptProcs, ScriptActs(self) PROVE marker' = marker
    BY <2>2, StoreAssumption, ScriptAssumption, ScriptFacts DEF ScriptActs, JobTyped, Fresh, InScript
  <2>3. CASE UNCHANGED jobVars \/ Cancel
    BY <2>3 DEF jobVars, storeVars, Cancel, CancelRead, CancelWrite, PlainMarker
  <2> QED
    BY <2>1, <2>2, <2>3 DEF JobNext
<1> QED
  BY <1>1, TurnsInvariant, JobTyping, PTL DEF JobSpec, CancelledIsFinal
-----------------------------------------------------------------------------
(***************************************************************************)
(* A resume clears the failure of its phase                                *)
(***************************************************************************)

(* The marker of a job that is real, for an engine of a fan-out phase      *)
(* alone.                                                                  *)
Marked ==
    marker.status = "FAILED" =>
       JobIsReal /\ (marker.phase \notin FanOutPhases => marker.engine = NoEngine)

(* What is left to clear of a phase, from its first script on.             *)
Rest(p) == IF p = "collect_triage" THEN {<<"collect", "triage">>, <<"triage">>, <<>>}
                                   ELSE {<<p>>, <<>>}

Blames(p) ==
    /\ marker.status = "FAILED"
    /\ marker.phase \in IF p = "collect_triage" THEN {"collect", "triage"} ELSE {p}

(* A failure of the phase is still to be cleared, or gone once all is.     *)
Cleared(f) ==
    f.op = "resume" =>
       /\ f.pc \in {"clearRead", "clearWrite"} => f.clears \in Rest(f.cur)
       /\ f.pc = "clearRead" /\ Blames(f.cur) =>
             \/ f.clears = <<"collect", "triage">>
             \/ f.clears = <<marker.phase>>
       /\ f.pc \in {"load", "begin", "run"} => ~Blames(f.cur)

LEMMA RestIs ==
  ASSUME NEW p \in Phase
  PROVE  /\ ScriptPhasesFor(p) \in Rest(p)
         /\ \A c \in Rest(p) : c # <<>> => Tail(c) \in Rest(p)
         /\ IF p = "collect_triage" THEN ScriptPhasesFor(p) = <<"collect", "triage">>
                                    ELSE ScriptPhasesFor(p) = <<p>>
<1>1. Tail(<<p>>) = <<>> /\ Tail(<<"triage">>) = <<>> /\ Tail(<<"collect", "triage">>) = <<"triage">>
  OBVIOUS
<1>2. CASE p = "collect_triage"
  BY <1>1, <1>2 DEF ScriptPhasesFor, Rest
<1>3. CASE p # "collect_triage"
  <2>1. Rest(p) = {<<p>>, <<>>} /\ ScriptPhasesFor(p) = <<p>>
    BY <1>3 DEF ScriptPhasesFor, Rest
  <2> QED
    BY <1>1, <1>3, <2>1
<1> QED
  BY <1>2, <1>3

(* Where the marker is not for the script phase at hand, it is for one of  *)
(* those that are left.                                                    *)
LEMMA ClearsOn ==
  ASSUME JobTyped, Marked, NEW p \in Phase, NEW c \in Rest(p), c # <<>>, Blames(p),
         c = <<"collect", "triage">> \/ c = <<marker.phase>>,
         ~(JobIsReal /\ Clears(marker, Head(c), ClearedEngine(p)))
  PROVE  Tail(c) = <<marker.phase>>
<1>1. marker.status = "FAILED" /\ JobIsReal
  BY DEF Blames, Marked
<1>2. marker.phase = Head(c) => FALSE
  <2> SUFFICES ASSUME marker.phase = Head(c) PROVE FALSE
    OBVIOUS
  <2>1. ClearedEngine(p) # AnyEngine /\ marker.engine # ClearedEngine(p)
    BY <1>1 DEF Clears
  <2>2. p \notin FanOutPhases /\ ClearedEngine(p) = NoEngine
    BY <2>1 DEF ClearedEngine
  <2>3. marker.phase \notin FanOutPhases
    BY <2>2 DEF Blames, FanOutPhases
  <2> QED
    BY <1>1, <2>1, <2>2, <2>3 DEF Marked
<1>3. c = <<"collect", "triage">> /\ p = "collect_triage"
  <2>1. c # <<marker.phase>>
    BY <1>2
  <2> QED
    BY <2>1 DEF Rest, Phase
<1>4. marker.phase = "triage" /\ Tail(c) = <<"triage">>
  BY <1>2, <1>3 DEF Blames
<1> QED
  BY <1>4

LEMMA ClearedStep ==
  ASSUME JobTyped, Marked, NEW self \in Procs, Cleared(orch[self]), Step(self)
  PROVE  Cleared(orch[self])'
<1> DEFINE f == orch[self]
<1>1. orch \in [Procs -> Frame] /\ f \in Frame /\ f.cur \in Phase /\ f.target \in Phase
  BY DEF JobTyped, Typed, FramesOK, Frame
<1>2. CASE f'.op # "resume" \/ f'.pc \notin {"clearRead", "clearWrite", "load", "begin", "run"}
  BY <1>2 DEF Cleared
<1>3. CASE Reload(self) \/ Validate(self)
  <2>1. CASE f'.pc = "clearRead" /\ f'.cur = f.cur /\ f'.clears = ScriptPhasesFor(f.cur)
    BY <1>1, <2>1, RestIs DEF Cleared, Blames
  <2>2. CASE Raise(self)
    BY <1>1, <1>2, <2>2 DEF Raise, Goto, Return, Idle, Frame
  <2> QED
    BY <1>1, <1>3, <2>1, <2>2 DEF Reload, Validate, Frame
<1>4. CASE ClearRead(self)
  <2>0. f.pc = "clearRead" /\ UNCHANGED <<marker, arts>>
    BY <1>4 DEF ClearRead, At, storeVars
  <2>1. CASE f.clears = <<>>
    <3>2. f'.op = f.op /\ f'.cur = f.cur /\ f'.pc \in {"begin", "getProgression", "load"}
      BY <1>1, <1>4, <2>1 DEF ClearRead, Goto, Frame
    <3>3. <<"collect", "triage">> # <<>> /\ <<marker.phase>> # <<>>
      OBVIOUS
    <3> QED
      BY <2>0, <2>1, <3>2, <3>3 DEF Cleared, Blames
  <2>2. CASE f.clears # <<>> /\ JobIsReal /\ Clears(marker, Head(f.clears), ClearedEngine(f.cur))
    <3>1. f'.op = f.op /\ f'.cur = f.cur /\ f'.pc = "clearWrite" /\ f'.clears = f.clears
      BY <1>1, <1>4, <2>2 DEF ClearRead, Goto, Frame
    <3> QED
      BY <2>0, <3>1 DEF Cleared
  <2>3. CASE f.clears # <<>> /\ ~(JobIsReal /\ Clears(marker, Head(f.clears), ClearedEngine(f.cur)))
    <3>1. f'.op = f.op /\ f'.cur = f.cur /\ f'.pc = "clearRead" /\ f'.clears = Tail(f.clears)
      BY <1>1, <1>4, <2>0, <2>3 DEF ClearRead, Frame
    <3> SUFFICES ASSUME f.op = "resume" PROVE Cleared(f)'
      BY <3>1 DEF Cleared
    <3>2. f.clears \in Rest(f.cur) /\ Tail(f.clears) \in Rest(f.cur)
      BY <1>1, <2>0, <2>3, RestIs DEF Cleared
    <3>3. Blames(f.cur) => Tail(f.clears) = <<marker.phase>>
      BY <1>1, <2>0, <2>3, <3>2, ClearsOn DEF Cleared
    <3> QED
      BY <2>0, <3>1, <3>2, <3>3 DEF Cleared, Blames
  <2> QED
    BY <2>1, <2>2, <2>3
<1>5. CASE ClearWrite(self)
  <2>1. /\ f'.op = f.op /\ f'.cur = f.cur /\ f'.pc = "clearRead" /\ f'.clears = Tail(f.clears)
        /\ f.pc = "clearWrite" /\ marker'.status # "FAILED" /\ f.clears # <<>>
    BY <1>1, <1>5 DEF ClearWrite, PlainMarker, Frame, At, JobTyped, Typed, FramesOK, FrameOK
  <2> QED
    BY <1>1, <2>1, RestIs DEF Cleared, Blames
<1>6. CASE Load(self) \/ Begin(self)
  <2>1. /\ f'.op = f.op /\ f'.cur = f.cur /\ f'.pc \in {"begin", "run"} /\ f.pc \in {"load", "begin"}
        /\ marker' = marker
    BY <1>1, <1>6 DEF Load, Begin, GotoWith, Frame, At
  <2> QED
    BY <2>1 DEF Cleared, Blames
<1>7. CASE ResumePhase(self) \/ ConfirmAll(self) \/ StartJob(self)
  BY <1>1, <1>2, <1>7 DEF ResumePhase, ConfirmAll, StartJob, Call
<1>8. CASE AssessSchemaDesign(self) \/ AssessSynthesis(self) \/ RoutingRaises(self)
  BY <1>1, <1>2, <1>8 DEF AssessSchemaDesign, AssessSynthesis, RoutingRaises, AssessFrame, Goto, Frame
<1>9. CASE GetProgression(self) \/ AdoptAssessed(self) \/ MarkRead(self) \/ MarkWrite(self)
  BY <1>1, <1>2, <1>9 DEF GetProgression, AdoptAssessed, MarkRead, MarkWrite, GotoWith, Goto, Return,
                          Idle, Frame
<1>10. CASE Descend(self)
  BY <1>1, <1>2, <1>10 DEF Descend, Goto, NextFrame, At, Frame
<1>11. CASE RunReturns(self) \/ RunExits(self) \/ Fail(self)
  BY <1>1, <1>2, <1>11 DEF RunReturns, RunExits, Fail, Raise, Goto, Return, Idle, Frame
<1>12. CASE RunRaises(self)
  <2>1. Return(self) \/ Goto(self, "fail")
    BY <1>12 DEF RunRaises
  <2> QED
    BY <1>1, <1>2, <2>1 DEF Goto, Return, Idle, Frame
<1>13. CASE FinishPrerequisite(self)
  BY <1>1, <1>2, <1>13 DEF FinishPrerequisite, NextFrame, Frame
<1>14. CASE FinishResume(self)
  BY <1>1, <1>2, <1>14 DEF FinishResume, Goto, Return, Idle, Frame
<1>15. CASE FinishStart(self)
  BY <1>1, <1>2, <1>15 DEF FinishStart, Return, Idle, Frame
<1>16. CASE ConfirmLoad(self) \/ ConfirmSave(self) \/ Crash(self)
  BY <1>1, <1>2, <1>16 DEF ConfirmLoad, ConfirmSave, Crash, GotoWith, Return, Idle, Frame
<1> QED
  BY <1>3, <1>4, <1>5, <1>6, <1>7, <1>8, <1>9, <1>10, <1>11, <1>12, <1>13, <1>14, <1>15, <1>16
     DEF Step, Advance

ResumeInv == Marked /\ \A self \in Procs : Cleared(orch[self])

LEMMA MarkedNext ==
  ASSUME "collect" \notin Kinds, JobTyped, NoPhantom, Marked, [JobNext]_jobVars
  PROVE  Marked'
<1>1. CASE UNCHANGED jobVars \/ Cancel
  BY <1>1 DEF jobVars, storeVars, Cancel, CancelRead, CancelWrite, PlainMarker, Marked, JobIsReal
<1>2. ASSUME NEW self \in Procs, OrchestratorStep(self) PROVE Marked'
  <2>1. Step(self)
    BY <1>2 DEF OrchestratorStep
  <2>2. JobIsReal => JobIsReal'
    BY <2>1, OrchestratorFacts DEF JobTyped, JobIsReal
  <2>3. CASE marker' = marker \/ marker'.status # "FAILED"
    BY <2>2, <2>3 DEF Marked
  <2>4. CASE At(self, "markWrite") /\ marker' = FailureMarker(orch[self].cur, NoEngine)
    BY <2>2, <2>4 DEF NoPhantom, Marked, FailureMarker
  <2> QED
    BY <2>1, <2>3, <2>4, OrchestratorFacts DEF JobTyped, PlainMarker
<1>3. ASSUME NEW self \in ScriptProcs, ScriptActs(self) PROVE Marked'
  <2>1. ScriptStep(self)
    BY <1>3 DEF ScriptActs
  <2>2. JobIsReal => JobIsReal'
    BY <2>1, StoreAssumption, ScriptAssumption, ScriptFacts DEF JobTyped, JobIsReal
  <2>3. CASE marker' = marker \/ marker'.status # "FAILED"
    BY <2>2, <2>3 DEF Marked
  <2>4. CASE /\ InScript(self, "markWrite")
             /\ marker' = FailureMarker(PhaseOf(script[self].kind), script[self].engine)
    <3>1. MayMark(script[self].kind) /\ script[self].kind \in Kinds
          /\ script[self].engine \in EnginesOf(script[self].kind)
      BY <2>4 DEF NoPhantom, PhantomInv, ChecksHold, JobTyped, ScriptsTyped, ScriptFrameOK, Busy,
                  InScript
    <3>2. JobIsReal
      BY <3>1 DEF MayMark
    <3>3. PhaseOf(script[self].kind) \notin FanOutPhases => script[self].engine = NoEngine
      BY <3>1 DEF PhaseOf, FanOutPhases, EnginesOf
    <3> QED
      BY <2>2, <2>4, <3>2, <3>3 DEF Marked, FailureMarker
  <2> QED
    BY <2>1, <2>3, <2>4, StoreAssumption, ScriptAssumption, ScriptFacts DEF JobTyped, PlainMarker
<1> QED
  BY <1>1, <1>2, <1>3 DEF JobNext

LEMMA ResumeNext ==
  ASSUME ~Overlap, "collect" \notin Kinds, JobTyped, NoPhantom, Turns, ResumeInv, [JobNext]_jobVars
  PROVE  ResumeInv'
<1>1. Marked'
  BY MarkedNext DEF ResumeInv
<1>2. ASSUME NEW p \in Procs, At(p, "idle") PROVE Cleared(orch[p])
  BY <1>2 DEF Cleared, At
<1>3. CASE UNCHANGED jobVars
  BY <1>1, <1>3 DEF jobVars, storeVars, orchVars, ResumeInv, Cleared, Blames
<1>4. ASSUME orch' = orch, ProcsIdle PROVE ResumeInv'
  BY <1>1, <1>4 DEF ProcsIdle, At, ResumeInv, Cleared
<1>5. CASE Cancel
  BY <1>4, <1>5 DEF Cancel, CancelRead, CancelWrite, orchVars, Turns, ProcsIdle
<1>6. ASSUME NEW self \in ScriptProcs, ScriptActs(self) PROVE ResumeInv'
  BY <1>4, <1>6 DEF ScriptActs, ProcsIdle
<1>7. ASSUME NEW self \in Procs, OrchestratorStep(self) PROVE ResumeInv'
  <2>1. Step(self) /\ OthersIdle(self)
    BY <1>7 DEF OrchestratorStep
  <2>2. Cleared(orch[self])'
    BY <2>1, ClearedStep DEF ResumeInv
  <2>3. \A other \in Procs \ {self} : orch'[other] = orch[other]
    BY <2>1, OrchestratorFacts DEF JobTyped
  <2>4. \A other \in Procs \ {self} : Cleared(orch[other])'
    BY <2>1, <2>3 DEF OthersIdle, At, Cleared
  <2> QED
    BY <1>1, <2>2, <2>4 DEF ResumeInv
<1> QED
  BY <1>3, <1>5, <1>6, <1>7 DEF JobNext

(* While a resumed phase runs, the job does not show as failed of a script *)
(* of that phase: each failure it had has been cleared, of whatever        *)
(* engine, for any jobs that exist.                                        *)
THEOREM ResumeClears ==
  ASSUME ~Overlap, "collect" \notin Kinds
  PROVE  JobSpec => []ResumeClearsMarker
<1>1. JobInit => ResumeInv
  BY DEF JobInit, ScriptStoreInit, PlainMarker, Idle, ResumeInv, Marked, Cleared
<1>2. JobTyped /\ NoPhantom /\ Turns /\ ResumeInv /\ [JobNext]_jobVars => ResumeInv'
  BY ResumeNext
<1>3. ResumeInv => ResumeClearsMarker
  BY DEF ResumeInv, Cleared, Blames, ResumeClearsMarker, At
<1> QED
  BY <1>1, <1>2, <1>3, JobTyping, NoPhantomInvariant, TurnsInvariant, PTL DEF JobSpec
=============================================================================
