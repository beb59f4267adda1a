----------------------- MODULE PhaseOrchestratorProofs -----------------------
(***************************************************************************)
(* What holds of PhaseOrchestrator for any number of API, command-line and *)
(* library processes, any sequence of calls, crashes and exits: types, the *)
(* order in which phases run, and that a completed phase left its output;  *)
(* and, for one process in every role, that calls one after the other keep *)
(* to PhaseLifecycle.                                                      *)
(***************************************************************************)
EXTENDS MCPhaseOrchestrator, TLAPS

(***************************************************************************)
(* Lemmas about progressions                                               *)
(***************************************************************************)

(* A fresh progression is well formed.                                     *)
LEMMA NewProgressionType == NewProgression \in Progression
  BY DEF NewProgression, Progression, PhaseRecord, PhaseStatus, SkipReason

(* So is one inferred from the artifacts.                                  *)
LEMMA InferProgressionType == InferProgression \in Progression
  BY DEF InferProgression, Progression, PhaseRecord, PhaseStatus, SkipReason

(* What _load_progression returns is well formed if .meta is.              *)
LEMMA LoadProgressionType ==
  ASSUME StoreTypeOK
  PROVE  LoadProgression \in Progression
  BY InferProgressionType DEF LoadProgression, StoreTypeOK

(* _set_phase_status keeps a progression well formed, as long as only      *)
(* schema design is skipped.                                               *)
LEMMA SetPhaseStatusType ==
  ASSUME NEW prog \in Progression, NEW p \in Phase,
         NEW status \in PhaseStatus, NEW skip \in SkipReason,
         skip # "none" => p = "schema_design"
  PROVE  SetPhaseStatus(prog, p, status, skip) \in Progression
<1> DEFINE new == SetPhaseStatus(prog, p, status, skip)
<1>1. new \in [Phase -> PhaseRecord]
  BY DEF SetPhaseStatus, Progression, PhaseRecord, SkipReason
<1>2. ASSUME NEW q \in Phase, new[q].skip # "none"
      PROVE  q = "schema_design" /\ new[q].status = "skipped"
  BY <1>2 DEF SetPhaseStatus, Progression, PhaseRecord
<1> QED
  BY <1>1, <1>2 DEF Progression

(* The statuses run_assessment.py assigns leave no reason behind.          *)
LEMMA ForcedType ==
  ASSUME NEW prog \in Progression, NEW target \in Phase
  PROVE  Forced(prog, target) \in Progression
<1>1. [prog EXCEPT !["reality_check"].status = "completed"] \in Progression
  BY DEF Progression, PhaseRecord, PhaseStatus, Phase
<1>2. prog["schema_design"].status # "skipped" =>
        [prog EXCEPT !["schema_design"].status = "completed"] \in Progression
  BY DEF Progression, PhaseRecord, PhaseStatus, Phase
<1>3. "assignment_review" \in Phase /\ "completed" \in PhaseStatus /\ "none" \in SkipReason
  BY DEF Phase, PhaseStatus, SkipReason
<1> QED
  BY <1>1, <1>2, <1>3, SetPhaseStatusType DEF Forced

(* What clear_failure_marker is called for names script phases.            *)
LEMMA ScriptPhasesType ==
  ASSUME NEW p \in Phase
  PROVE  ScriptPhasesFor(p) \in Seq(ScriptPhase)
<1>1. CASE p = "collect_triage"
  <2>1. "collect" \in ScriptPhase /\ "triage" \in ScriptPhase
    BY DEF ScriptPhase
  <2> QED
    BY <1>1, <2>1 DEF ScriptPhasesFor
<1>2. CASE p # "collect_triage"
  <2>1. p \in ScriptPhase
    BY <1>2 DEF ScriptPhase
  <2> QED
    BY <1>2, <2>1 DEF ScriptPhasesFor
<1> QED
  BY <1>1, <1>2

(***************************************************************************)
(* The order of the phases                                                 *)
(***************************************************************************)

(* How far down the pipeline a phase is.                                   *)
Rank(p) ==
    CASE p = "collect_triage"    -> 0
      [] p = "analysis"          -> 1
      [] p = "assignment"        -> 2
      [] p = "reality_check"     -> 3
      [] p = "assignment_review" -> 4
      [] p = "schema_design"     -> 5
      [] OTHER                   -> 6

(* Ranks are numbers, and can be compared.                                 *)
LEMMA RankType == \A p \in Phase : Rank(p) \in Nat
  BY DEF Rank, Phase

(* A prerequisite comes before the phase it is of.                         *)
LEMMA PrerequisiteRank ==
  ASSUME NEW p \in Phase, NEW q \in Prerequisites(p)
  PROVE  q \in Phase /\ Rank(q) < Rank(p)
  BY DEF Prerequisites, Rank, Phase

(* Nothing waits for a leaf; any other phase is the one prerequisite of    *)
(* the phase above it on the way up to target.                             *)
LEMMA AboveIsNext ==
  ASSUME NEW p \in Phase, NEW target \in Phase, Rank(p) < Rank(target)
  PROVE  /\ Above(p, target) \in Phase
         /\ Prerequisites(Above(p, target)) = {p}
         /\ Above(p, target) # target =>
               Rank(Above(p, target)) < Rank(target) /\ p # "schema_design"
<1> DEFINE up == Above(p, target)
<1>1. CASE p \in Prerequisites(target)
  BY <1>1 DEF Above, Prerequisites, Phase
<1>2. CASE p \notin Prerequisites(target)
  <2>1. up = CHOOSE q \in Phase : p \in Prerequisites(q)
    BY <1>2 DEF Above
  <2>2. p \notin {"schema_design", "load_test", "synthesis"}
    BY <1>2 DEF Rank, Prerequisites, Phase
  <2>3. \E q \in Phase : p \in Prerequisites(q)
    <3>1. /\ "collect_triage" \in Prerequisites("analysis")
          /\ "analysis" \in Prerequisites("assignment")
          /\ "assignment" \in Prerequisites("reality_check")
          /\ "reality_check" \in Prerequisites("assignment_review")
          /\ "assignment_review" \in Prerequisites("schema_design")
      BY DEF Prerequisites
    <3> QED
      BY <2>2, <3>1 DEF Phase
  <2>4. up \in Phase /\ p \in Prerequisites(up)
    BY <2>1, <2>3
  <2>5. Prerequisites(up) = {p} /\ Rank(up) = Rank(p) + 1
    BY <2>2, <2>4 DEF Prerequisites, Rank, Phase
  <2>6. up # target => Rank(up) < Rank(target)
    BY <1>2, <2>2, <2>4, <2>5 DEF Prerequisites, Rank, Phase
  <2> QED
    BY <2>2, <2>4, <2>5, <2>6
<1> QED
  BY <1>1, <1>2

(***************************************************************************)
(* Types                                                                   *)
(***************************************************************************)

(* What a frame at each step is good for: a phase in hand that is not the  *)
(* target is below it; run_assessment.py is before its resume ("assess")   *)
(* or in it ("strict"), always for the phase it names.                     *)
FrameOK(f) ==
    /\ f.cur # f.target => Rank(f.cur) < Rank(f.target)
    /\ f.pc = "clearWrite" => f.clears # <<>>
    /\ f.op \in {"assess", "strict"} =>
          f.cur = f.target /\ f.cur \in {"schema_design", "synthesis"}
    /\ f.pc \in {"descend", "reload"} => f.op = "resume"
    /\ f.op = "assess" => f.pc \in {"clearRead", "clearWrite", "getProgression", "force"}
    /\ f.pc \in {"getProgression", "force"} => f.op = "assess"
    /\ f.pc \in {"markRead", "markWrite", "assessed"} => f.op = "strict"

FramesOK == orch \in [Procs -> Frame] /\ \A self \in Procs : FrameOK(orch[self])

FilesOK == StoreTypeOK /\ calls \in Nat /\ unlocked \subseteq Phase

Typed == FilesOK /\ FramesOK

(* Reading .meta, storing what had to be inferred.                         *)
LEMMA StoreInferredType ==
  ASSUME FilesOK, StoreInferred
  PROVE  /\ meta' = LoadProgression
         /\ meta' \in Progression
         /\ unlocked' \subseteq Phase
<1>1. meta' = LoadProgression
  BY DEF StoreInferred, SaveProgression, LoadProgression
<1>2. unlocked' \subseteq Phase
  BY DEF StoreInferred, SaveProgression, Startable, FilesOK
<1> QED
  BY <1>1, <1>2, LoadProgressionType DEF FilesOK

(* Writing a progression back.                                             *)
LEMMA SaveType ==
  ASSUME FilesOK, NEW prog \in Progression, SaveProgression(prog),
         UNCHANGED <<marker, review, arts, calls>>
  PROVE  FilesOK'
  BY DEF FilesOK, StoreTypeOK, SaveProgression, Startable

(* Between calls a process holds nothing.                                  *)
LEMMA IdleType == Idle \in Frame /\ FrameOK(Idle)
<1>1. NewProgression \in Progression
  BY NewProgressionType
<1>2. <<>> \in Seq(ScriptPhase)
  OBVIOUS
<1> QED
  BY <1>1, <1>2 DEF Idle, Frame, FrameOK, Pc, Op, Phase

(* A call that ends leaves the other processes as they are.                *)
LEMMA ReturnType ==
  ASSUME FramesOK, NEW self \in Procs, Return(self)
  PROVE  FramesOK'
  BY IdleType DEF FramesOK, Return

(* Files no step touched.                                                  *)
LEMMA FilesUnchanged ==
  ASSUME FilesOK, UNCHANGED <<meta, marker, review, arts, unlocked>>, calls' \in Nat
  PROVE  FilesOK'
  BY DEF FilesOK, StoreTypeOK

(* Nobody has called, a few artifacts may be there.                        *)
LEMMA TypedInit == Init => Typed
<1> SUFFICES ASSUME Init PROVE Typed
  OBVIOUS
<1>1. meta \in Progression \cup {NoMeta} /\ review \in BOOLEAN
  BY DEF Init
<1>2. marker \in Marker
  BY DEF Init, Marker, PlainMarker, MarkerStatus
<1>3. arts \subseteq Artifact
  BY DEF Init, InitialArts, Artifact
<1>4. calls \in Nat /\ unlocked \subseteq Phase
  BY DEF Init, Startable
<1>5. FramesOK
  BY IdleType DEF Init, FramesOK
<1> QED
  BY <1>1, <1>2, <1>3, <1>4, <1>5 DEF Typed, FilesOK, StoreTypeOK

(* What a phase writes is an artifact.                                     *)
LEMMA OutputsType ==
  ASSUME NEW p \in Phase
  PROVE  Outputs(p) \subseteq Artifact /\ \A out \in PartialOutputs(p) : out \subseteq Artifact
<1>1. Outputs(p) \subseteq Artifact
  BY DEF Outputs, Artifact, Phase
<1> QED
  BY <1>1 DEF PartialOutputs, Artifact

(* Every step of a process keeps the files and the frames well formed.     *)
LEMMA TypedStep ==
  ASSUME Typed, NEW self \in Procs, Step(self)
  PROVE  Typed'
<1> DEFINE f == orch[self]
<1>0. f \in Frame /\ FrameOK(f) /\ FilesOK /\ FramesOK
  BY DEF Typed, FramesOK
<1>1. CASE ResumePhase(self)
  <2>1. FilesOK'
    BY <1>0, <1>1, FilesUnchanged DEF ResumePhase, Call, storeVars, FilesOK
  <2>2. FramesOK'
    BY <1>0, <1>1, NewProgressionType, OrchestratorAssumption
    DEF ResumePhase, Call, FramesOK, At, Goto, GotoWith, Frame, FrameOK, Pc, Op
  <2> QED
    BY <2>1, <2>2 DEF Typed
<1>2. CASE ConfirmAll(self)
  <2>1. FilesOK'
    BY <1>0, <1>2, FilesUnchanged DEF ConfirmAll, Call, storeVars, FilesOK
  <2>2. FramesOK'
    BY <1>0, <1>2, NewProgressionType
    DEF ConfirmAll, Call, Phase, FramesOK, At, Goto, GotoWith, Frame, FrameOK, Pc, Op
  <2> QED
    BY <2>1, <2>2 DEF Typed
<1>3. CASE StartJob(self)
  <2>1. FilesOK'
    BY <1>0, <1>3, FilesUnchanged DEF StartJob, Call, storeVars, FilesOK
  <2>2. FramesOK'
    BY <1>0, <1>3, NewProgressionType
    DEF StartJob, Call, Phase, Rank, FramesOK, At, Goto, GotoWith, Frame, FrameOK, Pc, Op
  <2> QED
    BY <2>1, <2>2 DEF Typed
<1>4. CASE AssessSchemaDesign(self)
  <2>1. FilesOK'
    BY <1>0, <1>4, FilesUnchanged DEF AssessSchemaDesign, storeVars, FilesOK
  <2>2. FramesOK'
    BY <1>0, <1>4, NewProgressionType
    DEF AssessSchemaDesign, AssessFrame, Phase, ScriptPhase, FramesOK, At, Goto, GotoWith, Frame, FrameOK, Pc, Op
  <2> QED
    BY <2>1, <2>2 DEF Typed
<1>5. CASE AssessSynthesis(self)
  <2>1. FilesOK'
    BY <1>0, <1>5, FilesUnchanged DEF AssessSynthesis, storeVars, FilesOK
  <2>2. FramesOK'
    BY <1>0, <1>5, NewProgressionType
    DEF AssessSynthesis, AssessFrame, Phase, ScriptPhase, FramesOK, At, Goto, GotoWith, Frame, FrameOK, Pc, Op
  <2> QED
    BY <2>1, <2>2 DEF Typed
<1>6. CASE RoutingRaises(self)
  <2>1. FilesOK'
    BY <1>0, <1>6, FilesUnchanged DEF RoutingRaises, storeVars, FilesOK
  <2>2. FramesOK'
    BY <1>0, <1>6
    DEF RoutingRaises, FramesOK, At, Goto, GotoWith, Frame, FrameOK, Pc, Op
  <2> QED
    BY <2>1, <2>2 DEF Typed
<1>7. CASE GetProgression(self)
  <2>1. FilesOK'
    BY <1>0, <1>7, FilesUnchanged DEF GetProgression, storeVars, FilesOK
  <2>2. FramesOK'
    BY <1>0, <1>7, NewProgressionType
    DEF GetProgression, FilesOK, StoreTypeOK, FramesOK, At, Goto, GotoWith, Frame, FrameOK, Pc, Op
  <2> QED
    BY <2>1, <2>2 DEF Typed
<1>8. CASE AdoptAssessed(self)
  <2>1. FilesOK'
    BY <1>0, <1>8, SaveType, ForcedType DEF AdoptAssessed, Frame
  <2>2. FramesOK'
    BY <1>0, <1>8
    DEF AdoptAssessed, FramesOK, At, Goto, GotoWith, Frame, FrameOK, Pc, Op
  <2> QED
    BY <2>1, <2>2 DEF Typed
<1>9. CASE MarkRead(self)
  <2>1. FilesOK'
    BY <1>0, <1>9, FilesUnchanged DEF MarkRead, storeVars, FilesOK
  <2>2. FramesOK'
    <3>1. CASE Return(self)
      BY <1>0, <3>1, ReturnType
    <3>2. CASE Goto(self, "markWrite")
      BY <1>0, <1>9, <3>2
      DEF MarkRead, FramesOK, At, Goto, GotoWith, Frame, FrameOK, Pc, Op
    <3> QED
      BY <1>9, <3>1, <3>2 DEF MarkRead
  <2> QED
    BY <2>1, <2>2 DEF Typed
<1>10. CASE MarkWrite(self)
  <2>1. FilesOK'
    BY <1>0, <1>10
    DEF MarkWrite, At, FilesOK, StoreTypeOK, FrameOK, FailureMarker, Marker, MarkerStatus, ScriptPhase, Phase
  <2>2. FramesOK'
    BY <1>0, <1>10, ReturnType DEF MarkWrite
  <2> QED
    BY <2>1, <2>2 DEF Typed
<1>11. CASE Descend(self)
  <2>1. FilesOK'
    BY <1>0, <1>11, StoreInferredType DEF Descend, FilesOK, StoreTypeOK
  <2>2. FramesOK'
    <3>1. CASE Unmet(LoadProgression, f.cur) = {}
      <4>1. PICK pc \in {"reload", "validate"} : Goto(self, pc)
        BY <1>11, <3>1 DEF Descend, NextFrame
      <4>2. At(self, "descend")
        BY <1>11 DEF Descend
      <4> QED
        BY <1>0, <4>1, <4>2 DEF FramesOK, At, Goto, GotoWith, Frame, FrameOK, Pc, Op
    <3>2. ASSUME NEW q \in Unmet(LoadProgression, f.cur), orch' = [orch EXCEPT ![self].cur = q]
          PROVE  FramesOK'
      <4>1. f.cur \in Phase /\ f.target \in Phase /\ q \in Prerequisites(f.cur)
        BY <1>0, <3>2 DEF Unmet, Frame
      <4>2. q \in Phase /\ Rank(q) < Rank(f.cur)
        BY <4>1, PrerequisiteRank
      <4>3. Rank(q) \in Nat /\ Rank(f.cur) \in Nat /\ Rank(f.target) \in Nat
        BY <4>1, <4>2, RankType
      <4>4. q # f.target => Rank(q) < Rank(f.target)
        <5>1. CASE f.cur = f.target
          BY <4>2, <5>1
        <5>2. CASE f.cur # f.target
          <6>1. Rank(f.cur) < Rank(f.target)
            BY <1>0, <5>2 DEF FrameOK
          <6> QED
            BY <4>2, <4>3, <6>1
        <5> QED
          BY <5>1, <5>2
      <4>5. At(self, "descend")
        BY <1>11 DEF Descend
      <4>6. f.op \notin {"assess", "strict"}
        BY <1>0, <4>5 DEF FrameOK, At
      <4> QED
        BY <1>0, <3>2, <4>2, <4>4, <4>5, <4>6 DEF FramesOK, At, Goto, GotoWith, Frame, FrameOK, Pc, Op
    <3> QED
      BY <1>11, <3>1, <3>2 DEF Descend
  <2> QED
    BY <2>1, <2>2 DEF Typed
<1>12. CASE Reload(self)
  <2>1. FilesOK'
    BY <1>0, <1>12, StoreInferredType DEF Reload, FilesOK, StoreTypeOK
  <2>2. FramesOK'
    BY <1>0, <1>12, LoadProgressionType, ScriptPhasesType
    DEF Reload, FilesOK, FramesOK, At, Goto, GotoWith, Frame, FrameOK, Pc, Op
  <2> QED
    BY <2>1, <2>2 DEF Typed
<1>13. CASE Validate(self)
  <2>1. FilesOK'
    BY <1>0, <1>13, StoreInferredType DEF Validate, FilesOK, StoreTypeOK
  <2>2. FramesOK'
    <3>1. CASE Return(self)
      BY <1>0, <3>1, ReturnType
    <3>2. CASE Goto(self, "markRead") /\ f.op = "strict"
      BY <1>0, <1>13, <3>2
      DEF Validate, FramesOK, At, Goto, GotoWith, Frame, FrameOK, Pc, Op
    <3>3. CASE orch' = [orch EXCEPT ![self].pc = "clearRead", ![self].clears = ScriptPhasesFor(f.cur)]
      BY <1>0, <1>13, <3>3, ScriptPhasesType
      DEF Validate, FramesOK, At, Goto, GotoWith, Frame, FrameOK, Pc, Op
    <3> QED
      BY <1>13, <3>1, <3>2, <3>3 DEF Validate, Raise
  <2> QED
    BY <2>1, <2>2 DEF Typed
<1>14. CASE ClearRead(self)
  <2>1. FilesOK'
    BY <1>0, <1>14, FilesUnchanged DEF ClearRead, storeVars, FilesOK
  <2>2. FramesOK'
    <3>1. CASE f.clears = <<>>
      <4>1. PICK pc \in {"begin", "getProgression", "load"} :
              /\ Goto(self, pc)
              /\ pc = "getProgression" <=> f.op = "assess"
        BY <1>0, <1>14, <3>1 DEF ClearRead, Nested, FrameOK
      <4> QED
        BY <1>0, <1>14, <4>1 DEF ClearRead, FramesOK, At, Goto, GotoWith, Frame, FrameOK, Pc, Op
    <3>2. CASE f.clears # <<>>
      <4>1. Tail(f.clears) \in Seq(ScriptPhase)
        BY <1>0, <3>2 DEF Frame
      <4>2. CASE Goto(self, "clearWrite")
        BY <1>0, <1>14, <3>2, <4>2 DEF ClearRead, FramesOK, At, Goto, GotoWith, Frame, FrameOK, Pc, Op
      <4>3. CASE orch' = [orch EXCEPT ![self].clears = Tail(f.clears)]
        BY <1>0, <1>14, <4>1, <4>3 DEF ClearRead, FramesOK, At, Goto, GotoWith, Frame, FrameOK, Pc, Op
      <4> QED
        BY <1>14, <3>2, <4>2, <4>3 DEF ClearRead
    <3> QED
      BY <3>1, <3>2
  <2> QED
    BY <2>1, <2>2 DEF Typed
<1>15. CASE ClearWrite(self)
  <2>1. FilesOK'
    BY <1>0, <1>15 DEF ClearWrite, FilesOK, StoreTypeOK, PlainMarker, Marker, MarkerStatus
  <2>2. FramesOK'
    <3>1. Tail(f.clears) \in Seq(ScriptPhase)
      BY <1>0, <1>15 DEF ClearWrite, At, Frame, FrameOK
    <3> QED
      BY <1>0, <1>15, <3>1 DEF ClearWrite, FramesOK, At, Goto, GotoWith, Frame, FrameOK, Pc, Op
  <2> QED
    BY <2>1, <2>2 DEF Typed
<1>16. CASE Load(self)
  <2>1. FilesOK'
    BY <1>0, <1>16, StoreInferredType DEF Load, FilesOK, StoreTypeOK
  <2>2. FramesOK'
    BY <1>0, <1>16, LoadProgressionType
    DEF Load, FilesOK, FramesOK, At, Goto, GotoWith, Frame, FrameOK, Pc, Op
  <2> QED
    BY <2>1, <2>2 DEF Typed
<1>17. CASE Begin(self)
  <2>1. FilesOK'
    <3> DEFINE prog == SetPhaseStatus(f.prog, f.cur, "in_progress", "none")
    <3>1. prog \in Progression
      BY <1>0, SetPhaseStatusType DEF Frame, PhaseStatus, SkipReason
    <3> QED
      BY <1>0, <1>17, <3>1, SaveType DEF Begin
  <2>2. FramesOK'
    <3> DEFINE prog == SetPhaseStatus(f.prog, f.cur, "in_progress", "none")
    <3>1. prog \in Progression
      BY <1>0, SetPhaseStatusType DEF Frame, PhaseStatus, SkipReason
    <3> HIDE DEF prog
    <3>2. GotoWith(self, "run", prog) /\ At(self, "begin")
      BY <1>17 DEF Begin, prog
    <3> QED
      BY <1>0, <3>1, <3>2 DEF FramesOK, At, Goto, GotoWith, Frame, FrameOK, Pc, Op
  <2> QED
    BY <2>1, <2>2 DEF Typed
<1>18. CASE RunReturns(self)
  <2>1. FilesOK'
    BY <1>0, <1>18, OutputsType DEF RunReturns, FilesOK, StoreTypeOK, Frame
  <2>2. FramesOK'
    BY <1>0, <1>18
    DEF RunReturns, FramesOK, At, Goto, GotoWith, Frame, FrameOK, Pc, Op
  <2> QED
    BY <2>1, <2>2 DEF Typed
<1>19. CASE RunRaises(self)
  <2>1. FilesOK'
    BY <1>0, <1>19, OutputsType DEF RunRaises, FilesOK, StoreTypeOK, Frame
  <2>2. FramesOK'
    <3>1. CASE Return(self)
      BY <1>0, <3>1, ReturnType
    <3>2. CASE Goto(self, "fail")
      BY <1>0, <1>19, <3>2
      DEF RunRaises, FramesOK, At, Goto, GotoWith, Frame, FrameOK, Pc, Op
    <3> QED
      BY <1>19, <3>1, <3>2 DEF RunRaises
  <2> QED
    BY <2>1, <2>2 DEF Typed
<1>20. CASE RunExits(self)
  <2>1. FilesOK'
    BY <1>0, <1>20, FilesUnchanged DEF RunExits, storeVars, FilesOK
  <2>2. FramesOK'
    BY <1>0, <1>20, ReturnType DEF RunExits
  <2> QED
    BY <2>1, <2>2 DEF Typed
<1>21. CASE Fail(self)
  <2>1. FilesOK'
    <3>1. SetPhaseStatus(f.prog, f.cur, "failed", "none") \in Progression
      BY <1>0, SetPhaseStatusType DEF Frame, PhaseStatus, SkipReason
    <3> QED
      BY <1>0, <1>21, <3>1, SaveType DEF Fail
  <2>2. FramesOK'
    <3>1. CASE Return(self)
      BY <1>0, <3>1, ReturnType
    <3>2. CASE Goto(self, "markRead") /\ f.op = "strict"
      BY <1>0, <1>21, <3>2
      DEF Fail, FramesOK, At, Goto, GotoWith, Frame, FrameOK, Pc, Op
    <3> QED
      BY <1>21, <3>1, <3>2 DEF Fail, Raise
  <2> QED
    BY <2>1, <2>2 DEF Typed
<1>22. CASE FinishPrerequisite(self)
  <2>1. FilesOK'
    <3>1. SetPhaseStatus(f.prog, f.cur, "skipped", "no_llm") \in Progression \/ ~Skips(f.cur)
      BY <1>0, SetPhaseStatusType DEF Frame, PhaseStatus, SkipReason, Skips
    <3>2. SetPhaseStatus(f.prog, f.cur, "completed", "none") \in Progression
      BY <1>0, SetPhaseStatusType DEF Frame, PhaseStatus, SkipReason
    <3>3. \E prog \in Progression : SaveProgression(prog)
      BY <1>22, <3>1, <3>2 DEF FinishPrerequisite
    <3> QED
      BY <1>0, <1>22, <3>3, SaveType DEF FinishPrerequisite
  <2>2. FramesOK'
    <3>1. SetPhaseStatus(f.prog, f.cur, "skipped", "no_llm") \in Progression \/ ~Skips(f.cur)
      BY <1>0, SetPhaseStatusType DEF Frame, PhaseStatus, SkipReason, Skips
    <3>2. SetPhaseStatus(f.prog, f.cur, "completed", "none") \in Progression
      BY <1>0, SetPhaseStatusType DEF Frame, PhaseStatus, SkipReason
    <3> DEFINE up == Above(f.cur, f.target)
    <3>3. up \in Phase /\ (up # f.target => Rank(up) < Rank(f.target))
      BY <1>0, <1>22, AboveIsNext DEF FinishPrerequisite, Nested, Frame, FrameOK
    <3>4. NextFrame(up, f.target) \in {"reload", "validate"}
      BY DEF NextFrame
    <3>5. PICK prog \in Progression : orch' = [orch EXCEPT ![self].cur = up,
                                         ![self].pc = NextFrame(up, f.target), ![self].prog = prog]
      BY <1>22, <3>1, <3>2 DEF FinishPrerequisite
    <3>6. f.op = "resume"
      BY <1>22 DEF FinishPrerequisite
    <3> HIDE DEF up
    <3> QED
      BY <1>0, <3>3, <3>4, <3>5, <3>6 DEF FramesOK, At, Goto, GotoWith, Frame, FrameOK, Pc, Op
  <2> QED
    BY <2>1, <2>2 DEF Typed
<1>23. CASE FinishResume(self)
  <2>1. FilesOK'
    <3>1. SetPhaseStatus(f.prog, f.cur, "skipped", "no_llm") \in Progression \/ ~Skips(f.cur)
      BY <1>0, SetPhaseStatusType DEF Frame, PhaseStatus, SkipReason, Skips
    <3>2. \A status \in {"awaiting_review", "completed"} :
            SetPhaseStatus(f.prog, f.cur, status, "none") \in Progression
      BY <1>0, SetPhaseStatusType DEF Frame, PhaseStatus, SkipReason
    <3>3. \E prog \in Progression : SaveProgression(prog)
      BY <1>23, <3>1, <3>2 DEF FinishResume
    <3> QED
      BY <1>0, <1>23, <3>3, SaveType DEF FinishResume
  <2>2. FramesOK'
    <3>1. CASE Return(self)
      BY <1>0, <3>1, ReturnType
    <3>2. CASE Goto(self, "assessed") /\ f.op = "strict"
      BY <1>0, <1>23, <3>2
      DEF FinishResume, FramesOK, At, Goto, GotoWith, Frame, FrameOK, Pc, Op
    <3> QED
      BY <1>23, <3>1, <3>2 DEF FinishResume
  <2> QED
    BY <2>1, <2>2 DEF Typed
<1>24. CASE FinishStart(self)
  <2>1. FilesOK'
    <3>1. SetPhaseStatus(f.prog, "collect_triage", "completed", "none") \in Progression
      BY <1>0, SetPhaseStatusType DEF Frame, PhaseStatus, SkipReason, Phase
    <3>2. SetPhaseStatus(f.prog, "analysis", "awaiting_review", "none") \in Progression
      BY <1>0, SetPhaseStatusType DEF Frame, PhaseStatus, SkipReason, Phase
    <3>3. \E prog \in Progression : SaveProgression(prog)
      BY <1>24, <3>1, <3>2 DEF FinishStart
    <3> QED
      BY <1>0, <1>24, <3>3, SaveType DEF FinishStart
  <2>2. FramesOK'
    <3>1. CASE Return(self)
      BY <1>0, <3>1, ReturnType
    <3>2. SetPhaseStatus(f.prog, "collect_triage", "completed", "none") \in Progression
      BY <1>0, SetPhaseStatusType DEF Frame, PhaseStatus, SkipReason, Phase
    <3>3. ASSUME NEW prog \in Progression, f.op = "start",
                 orch' = [orch EXCEPT ![self].cur = "analysis", ![self].pc = "begin",
                                      ![self].prog = prog]
          PROVE  FramesOK'
      BY <1>0, <1>24, <3>3 DEF FinishStart, FramesOK, At, Goto, GotoWith, Frame, FrameOK, Pc, Op, Phase
    <3> QED
      BY <1>24, <3>1, <3>2, <3>3 DEF FinishStart
  <2> QED
    BY <2>1, <2>2 DEF Typed
<1>25. CASE ConfirmLoad(self)
  <2>1. FilesOK'
    BY <1>0, <1>25, StoreInferredType DEF ConfirmLoad, FilesOK, StoreTypeOK
  <2>2. FramesOK'
    <3>1. CASE Return(self)
      BY <1>0, <3>1, ReturnType
    <3>2. CASE GotoWith(self, "confirmSave", LoadProgression)
      BY <1>0, <1>25, <3>2, LoadProgressionType
      DEF ConfirmLoad, FilesOK, FramesOK, At, Goto, GotoWith, Frame, FrameOK, Pc, Op
    <3> QED
      BY <1>25, <3>1, <3>2 DEF ConfirmLoad
  <2> QED
    BY <2>1, <2>2 DEF Typed
<1>26. CASE ConfirmSave(self)
  <2>1. FilesOK'
    <3>1. SetPhaseStatus(f.prog, "schema_design", "completed", "none") \in Progression
      BY <1>0, SetPhaseStatusType DEF Frame, PhaseStatus, SkipReason, Phase
    <3> QED
      BY <1>0, <1>26, <3>1, SaveType DEF ConfirmSave
  <2>2. FramesOK'
    BY <1>0, <1>26, ReturnType DEF ConfirmSave
  <2> QED
    BY <2>1, <2>2 DEF Typed
<1>27. CASE Crash(self)
  <2>1. FilesOK'
    BY <1>0, <1>27, FilesUnchanged DEF Crash, storeVars, FilesOK
  <2>2. FramesOK'
    BY <1>0, <1>27, ReturnType DEF Crash
  <2> QED
    BY <2>1, <2>2 DEF Typed
<1> QED
  BY <1>1, <1>2, <1>3, <1>4, <1>5, <1>6, <1>7, <1>8, <1>9, <1>10, <1>11, <1>12, <1>13, <1>14,
     <1>15, <1>16, <1>17, <1>18, <1>19, <1>20, <1>21, <1>22, <1>23, <1>24, <1>25, <1>26, <1>27 DEF Step, Advance

(***************************************************************************)
(* TypeOK holds however many processes call the orchestrator, and whatever *)
(* engines and phases there are: a skip reason stays with a skipped schema *)
(* design, a marker keeps the shape job_status.py gives it.                *)
(***************************************************************************)
THEOREM Typing == Spec => []TypeOK
<1>1. Init => Typed
  BY TypedInit
<1>2. Typed /\ [Next]_vars => Typed'
  <2>1. ASSUME Typed, Next PROVE Typed'
    BY <2>1, TypedStep DEF Next
  <2>2. ASSUME Typed, UNCHANGED vars PROVE Typed'
    BY <2>2 DEF vars, storeVars, orchVars, Typed, FilesOK, FramesOK, StoreTypeOK
  <2> QED
    BY <2>1, <2>2
<1>3. Typed => TypeOK
  BY DEF Typed, FilesOK, FramesOK, TypeOK
<1> QED
  BY <1>1, <1>2, <1>3, PTL DEF Spec

-----------------------------------------------------------------------------
(***************************************************************************)
(* The safety of the phases of a job, for any number of processes: the     *)
(* order in which they run (RunsOnlyUnlocked), and that COMPLETED is       *)
(* backed by an artifact (CompletedIsBacked).  Each is strengthened to an  *)
(* inductive invariant that also says what the steps between a check and   *)
(* the write it leads to rely on.                                          *)
(***************************************************************************)

(***************************************************************************)
(* The order of phases                                                     *)
(***************************************************************************)

(* The steps of a call for which a progression on disk has already shown   *)
(* the prerequisites of the phase in hand met.  run_assessment.py clears   *)
(* the markers of a phase before it asks ("assess").                       *)
Allowed(f) ==
    f.pc \in {"reload", "clearRead", "clearWrite", "load"} \cup AtWork /\ f.op # "assess"
        => f.cur \in unlocked

(* A progression on disk has unlocked what it lets start.                  *)
StoredUnlocked ==
    /\ "collect_triage" \in unlocked
    /\ meta # NoMeta => Startable(meta) \subseteq unlocked

Order == StoredUnlocked /\ \A self \in Procs : Allowed(orch[self])

(* Nothing is ever locked again, and what a load or a save shows to be     *)
(* startable is unlocked by it.                                            *)
LEMMA StoreInferredOrder ==
  ASSUME FilesOK, StoredUnlocked, StoreInferred
  PROVE  /\ StoredUnlocked'
         /\ unlocked \subseteq unlocked'
         /\ Startable(LoadProgression) \subseteq unlocked'
<1>1. CASE meta = NoMeta
  BY <1>1 DEF StoreInferred, SaveProgression, StoredUnlocked, LoadProgression, Startable, Unmet,
              PrerequisiteMet
<1>2. CASE meta # NoMeta
  BY <1>2 DEF StoreInferred, StoredUnlocked, LoadProgression, Startable, Unmet, PrerequisiteMet
<1> QED
  BY <1>1, <1>2

(* So does a save of any progression.                                      *)
LEMMA SaveOrder ==
  ASSUME StoredUnlocked, NEW prog, SaveProgression(prog)
  PROVE  StoredUnlocked' /\ unlocked \subseteq unlocked' /\ Startable(prog) \subseteq unlocked'
  BY DEF SaveProgression, StoredUnlocked, Startable, Unmet, PrerequisiteMet

(* A phase whose one prerequisite is COMPLETED may start.                  *)
LEMMA CompletedUnlocks ==
  ASSUME NEW prog \in Progression, NEW p \in Phase, NEW up \in Phase, Prerequisites(up) = {p}
  PROVE  up \in Startable(SetPhaseStatus(prog, p, "completed", "none"))
<1>1. SetPhaseStatus(prog, p, "completed", "none")[p].status = "completed"
  BY DEF SetPhaseStatus, Progression
<1> QED
  BY <1>1 DEF Startable, Unmet, PrerequisiteMet

(* Every process waits at a step that asks for nothing, or has been        *)
(* unlocked; steps of another process only unlock more.                    *)
LEMMA OrderInit == Init => Order
<1> SUFFICES ASSUME Init PROVE Order
  OBVIOUS
<1>1. "collect_triage" \in unlocked
  BY DEF Init, Startable, Unmet, Prerequisites, Phase
<1>2. \A self \in Procs : Allowed(orch[self])
  BY DEF Init, Idle, Allowed, AtWork
<1> QED
  BY <1>1, <1>2 DEF Init, Order, StoredUnlocked

(* A step that leaves the store's progression alone.                       *)
LEMMA OrderQuiet ==
  ASSUME StoredUnlocked, UNCHANGED <<meta, unlocked>>
  PROVE  StoredUnlocked' /\ unlocked \subseteq unlocked'
  BY DEF StoredUnlocked, Startable, Unmet, PrerequisiteMet

(* The frame a step leaves its process in decides for all of them.         *)
LEMMA OrderFrame ==
  ASSUME Typed, Order, NEW self \in Procs, StoredUnlocked', unlocked \subseteq unlocked',
         \A other \in Procs \ {self} : orch'[other] = orch[other],
         orch'[self].pc \in {"reload", "clearRead", "clearWrite", "load"} \cup AtWork
            /\ orch'[self].op # "assess" => orch'[self].cur \in unlocked'
  PROVE  Order'
  BY DEF Order, Allowed

(* A call that ends asks for nothing more.                                 *)
LEMMA OrderReturn ==
  ASSUME Typed, Order, NEW self \in Procs, StoredUnlocked', unlocked \subseteq unlocked',
         Return(self)
  PROVE  Order'
<1>1. /\ \A other \in Procs \ {self} : orch'[other] = orch[other]
      /\ orch'[self].pc = "idle"
  BY DEF Return, Idle, Typed, FramesOK
<1> QED
  BY <1>1, OrderFrame DEF AtWork

(* A call that goes on to a step that asks for nothing.                    *)
LEMMA OrderGoto ==
  ASSUME Typed, Order, NEW self \in Procs, StoredUnlocked', unlocked \subseteq unlocked',
         NEW pc \in Pc \ ({"reload", "clearRead", "clearWrite", "load"} \cup AtWork),
         NEW prog, Goto(self, pc) \/ GotoWith(self, pc, prog)
  PROVE  Order'
<1>1. /\ \A other \in Procs \ {self} : orch'[other] = orch[other]
      /\ orch'[self].pc = pc
  BY DEF Goto, GotoWith, Typed, FramesOK, Frame
<1> QED
  BY <1>1, OrderFrame

(* Every step of a process keeps the order.                                *)
LEMMA OrderStep ==
  ASSUME Typed, Order, NEW self \in Procs, Step(self)
  PROVE  Order'
<1> DEFINE f == orch[self]
<1>0. /\ f \in Frame /\ FrameOK(f) /\ FilesOK /\ FramesOK
      /\ StoredUnlocked /\ Allowed(f)
  BY DEF Typed, FramesOK, Order
<1>1. CASE ResumePhase(self) \/ ConfirmAll(self)
  <2>1. StoredUnlocked' /\ unlocked \subseteq unlocked'
    BY <1>0, <1>1, OrderQuiet DEF ResumePhase, ConfirmAll, Call, storeVars
  <2>2. /\ \A other \in Procs \ {self} : orch'[other] = orch[other]
        /\ orch'[self].pc \in {"descend", "confirmLoad"}
    BY <1>0, <1>1 DEF ResumePhase, ConfirmAll, Call, FramesOK
  <2> QED
    BY <2>1, <2>2, OrderFrame DEF AtWork
<1>2. CASE StartJob(self)
  <2>1. StoredUnlocked' /\ unlocked \subseteq unlocked'
    BY <1>0, <1>2, OrderQuiet DEF StartJob, Call, storeVars
  <2>2. /\ \A other \in Procs \ {self} : orch'[other] = orch[other]
        /\ orch'[self].cur = "collect_triage"
    BY <1>0, <1>2 DEF StartJob, Call, FramesOK
  <2> QED
    BY <2>1, <2>2, OrderFrame DEF StoredUnlocked
<1>3. CASE AssessSchemaDesign(self) \/ AssessSynthesis(self)
  <2>1. StoredUnlocked' /\ unlocked \subseteq unlocked'
    BY <1>0, <1>3, OrderQuiet DEF AssessSchemaDesign, AssessSynthesis, storeVars
  <2>2. /\ \A other \in Procs \ {self} : orch'[other] = orch[other]
        /\ orch'[self].op = "assess"
    BY <1>0, <1>3 DEF AssessSchemaDesign, AssessSynthesis, AssessFrame, FramesOK
  <2> QED
    BY <2>1, <2>2, OrderFrame
<1>4. CASE RoutingRaises(self)
  <2>1. StoredUnlocked' /\ unlocked \subseteq unlocked' /\ Goto(self, "markRead")
    BY <1>0, <1>4, OrderQuiet DEF RoutingRaises, storeVars
  <2> QED
    BY <2>1, OrderGoto DEF Pc, AtWork
<1>5. CASE GetProgression(self)
  <2>1. /\ StoredUnlocked' /\ unlocked \subseteq unlocked'
        /\ GotoWith(self, "force", IF meta = NoMeta THEN NewProgression ELSE meta)
    BY <1>0, <1>5, OrderQuiet DEF GetProgression, storeVars
  <2> QED
    BY <2>1, OrderGoto DEF Pc, AtWork
<1>6. CASE AdoptAssessed(self)
  <2>1. StoredUnlocked' /\ unlocked \subseteq unlocked'
    BY <1>0, <1>6, SaveOrder DEF AdoptAssessed
  <2>2. /\ \A other \in Procs \ {self} : orch'[other] = orch[other]
        /\ orch'[self].pc = "validate"
    BY <1>0, <1>6 DEF AdoptAssessed, FramesOK, Frame
  <2> QED
    BY <2>1, <2>2, OrderFrame DEF AtWork
<1>7. CASE MarkRead(self) \/ MarkWrite(self)
  <2>1. /\ StoredUnlocked' /\ unlocked \subseteq unlocked'
        /\ Goto(self, "markWrite") \/ Return(self)
    BY <1>0, <1>7, OrderQuiet DEF MarkRead, MarkWrite, storeVars
  <2> QED
    BY <2>1, OrderGoto, OrderReturn DEF Pc, AtWork
<1>8. CASE Descend(self)
  <2>1. /\ StoredUnlocked' /\ unlocked \subseteq unlocked'
        /\ Startable(LoadProgression) \subseteq unlocked'
    BY <1>0, <1>8, StoreInferredOrder DEF Descend
  <2>2. CASE \E q \in Unmet(LoadProgression, f.cur) : orch' = [orch EXCEPT ![self].cur = q]
    <3>1. /\ \A other \in Procs \ {self} : orch'[other] = orch[other]
          /\ orch'[self].pc = "descend"
      BY <1>0, <1>8, <2>2 DEF Descend, At, FramesOK, Frame
    <3> QED
      BY <2>1, <3>1, OrderFrame DEF AtWork
  <2>3. CASE Unmet(LoadProgression, f.cur) = {} /\ Goto(self, NextFrame(f.cur, f.target))
    <3>1. f.cur \in unlocked'
      BY <1>0, <2>1, <2>3 DEF Startable, Frame
    <3>2. /\ \A other \in Procs \ {self} : orch'[other] = orch[other]
          /\ orch'[self].cur = f.cur
      BY <1>0, <2>3 DEF Goto, FramesOK, Frame
    <3> QED
      BY <2>1, <3>1, <3>2, OrderFrame
  <2> QED
    BY <1>8, <2>2, <2>3 DEF Descend
<1>9. CASE Reload(self) \/ Load(self)
  <2>1. StoredUnlocked' /\ unlocked \subseteq unlocked'
    BY <1>0, <1>9, StoreInferredOrder DEF Reload, Load
  <2>2. /\ \A other \in Procs \ {self} : orch'[other] = orch[other]
        /\ orch'[self].cur = f.cur /\ orch'[self].op = f.op
    BY <1>0, <1>9 DEF Reload, Load, GotoWith, FramesOK, Frame
  <2>3. f.pc \in {"reload", "load"}
    BY <1>9 DEF Reload, Load, At
  <2> QED
    BY <1>0, <2>1, <2>2, <2>3, OrderFrame DEF Allowed
<1>10. CASE Validate(self)
  <2>1. /\ StoredUnlocked' /\ unlocked \subseteq unlocked'
        /\ Startable(LoadProgression) \subseteq unlocked'
    BY <1>0, <1>10, StoreInferredOrder DEF Validate
  <2>2. CASE Unmet(LoadProgression, f.cur) = {}
    <3>1. f.cur \in unlocked'
      BY <1>0, <2>1, <2>2 DEF Startable, Frame
    <3>2. /\ \A other \in Procs \ {self} : orch'[other] = orch[other]
          /\ orch'[self].cur = f.cur
      BY <1>0, <1>10, <2>2 DEF Validate, FramesOK, Frame
    <3> QED
      BY <2>1, <3>1, <3>2, OrderFrame
  <2>3. CASE Goto(self, "markRead") \/ Return(self)
    BY <2>1, <2>3, OrderGoto, OrderReturn DEF Pc, AtWork
  <2> QED
    BY <1>10, <2>2, <2>3 DEF Validate, Raise
<1>11. CASE ClearRead(self) \/ ClearWrite(self)
  <2>1. StoredUnlocked' /\ unlocked \subseteq unlocked'
    BY <1>0, <1>11, OrderQuiet DEF ClearRead, ClearWrite, storeVars
  <2>2. f.pc \in {"clearRead", "clearWrite"}
    BY <1>11 DEF ClearRead, ClearWrite, At
  <2>3. /\ \A other \in Procs \ {self} : orch'[other] = orch[other]
        /\ orch'[self].cur = f.cur /\ orch'[self].op = f.op
    BY <1>0, <1>11 DEF ClearRead, ClearWrite, Goto, FramesOK, Frame
  <2> QED
    BY <1>0, <2>1, <2>2, <2>3, OrderFrame DEF Allowed
<1>12. CASE Begin(self)
  <2>1. StoredUnlocked' /\ unlocked \subseteq unlocked'
    BY <1>0, <1>12, SaveOrder DEF Begin
  <2>2. /\ \A other \in Procs \ {self} : orch'[other] = orch[other]
        /\ orch'[self].cur = f.cur /\ orch'[self].op = f.op
    BY <1>0, <1>12 DEF Begin, GotoWith, FramesOK, Frame
  <2>3. f.pc = "begin"
    BY <1>12 DEF Begin, At
  <2> QED
    BY <1>0, <2>1, <2>2, <2>3, OrderFrame DEF Allowed, AtWork
<1>13. CASE RunReturns(self) \/ RunRaises(self) \/ RunExits(self)
  <2>1. StoredUnlocked' /\ unlocked \subseteq unlocked'
    BY <1>0, <1>13, OrderQuiet DEF RunReturns, RunRaises, RunExits, storeVars
  <2>2. CASE Goto(self, "finish") \/ Goto(self, "fail")
    <3>1. /\ \A other \in Procs \ {self} : orch'[other] = orch[other]
          /\ orch'[self].cur = f.cur /\ orch'[self].op = f.op
      BY <1>0, <2>2 DEF Goto, FramesOK, Frame
    <3>2. f.pc = "run"
      BY <1>13 DEF RunReturns, RunRaises, RunExits, At
    <3> QED
      BY <1>0, <2>1, <3>1, <3>2, OrderFrame DEF Allowed, AtWork
  <2>3. CASE Return(self)
    BY <2>1, <2>3, OrderReturn
  <2> QED
    BY <1>13, <2>2, <2>3 DEF RunReturns, RunRaises, RunExits
<1>14. CASE Fail(self)
  <2>1. StoredUnlocked' /\ unlocked \subseteq unlocked'
    BY <1>0, <1>14, SaveOrder DEF Fail
  <2>2. Goto(self, "markRead") \/ Return(self)
    BY <1>14 DEF Fail, Raise
  <2> QED
    BY <2>1, <2>2, OrderGoto, OrderReturn DEF Pc, AtWork
<1>15. CASE FinishPrerequisite(self)
  <2> DEFINE up == Above(f.cur, f.target)
             prog == IF Skips(f.cur) THEN SetPhaseStatus(f.prog, f.cur, "skipped", "no_llm")
                                     ELSE SetPhaseStatus(f.prog, f.cur, "completed", "none")
  <2>1. StoredUnlocked' /\ unlocked \subseteq unlocked' /\ Startable(prog) \subseteq unlocked'
    BY <1>0, <1>15, SaveOrder DEF FinishPrerequisite
  <2>2. /\ up \in Phase /\ Prerequisites(up) = {f.cur}
        /\ up # f.target => f.cur # "schema_design"
    BY <1>0, <1>15, AboveIsNext DEF FinishPrerequisite, Nested, Frame, FrameOK
  <2>3. up # f.target => up \in unlocked'
    BY <1>0, <2>1, <2>2, CompletedUnlocks DEF Skips, Frame
  <2>4. /\ \A other \in Procs \ {self} : orch'[other] = orch[other]
        /\ orch'[self].cur = up /\ orch'[self].pc = NextFrame(up, f.target)
    BY <1>0, <1>15 DEF FinishPrerequisite, FramesOK, Frame
  <2> QED
    BY <2>1, <2>3, <2>4, OrderFrame DEF NextFrame, AtWork
<1>16. CASE FinishResume(self)
  <2>1. \E prog : SaveProgression(prog)
    BY <1>16 DEF FinishResume
  <2>2. StoredUnlocked' /\ unlocked \subseteq unlocked'
    BY <1>0, <2>1, SaveOrder
  <2>3. Goto(self, "assessed") \/ Return(self)
    BY <1>16 DEF FinishResume
  <2> QED
    BY <2>2, <2>3, OrderGoto, OrderReturn DEF Pc, AtWork
<1>17. CASE FinishStart(self)
  <2>1. CASE Nested(self)
    <3> DEFINE prog == SetPhaseStatus(f.prog, "collect_triage", "completed", "none")
    <3>1. StoredUnlocked' /\ unlocked \subseteq unlocked' /\ Startable(prog) \subseteq unlocked'
      BY <1>0, <1>17, <2>1, SaveOrder DEF FinishStart
    <3>2. Prerequisites("analysis") = {"collect_triage"}
      BY DEF Prerequisites
    <3>3. "analysis" \in unlocked'
      BY <1>0, <3>1, <3>2, CompletedUnlocks DEF Frame, Phase
    <3>4. /\ \A other \in Procs \ {self} : orch'[other] = orch[other]
          /\ orch'[self].cur = "analysis"
      BY <1>0, <1>17, <2>1 DEF FinishStart, FramesOK, Frame
    <3> QED
      BY <3>1, <3>3, <3>4, OrderFrame
  <2>2. CASE ~Nested(self)
    <3>1. StoredUnlocked' /\ unlocked \subseteq unlocked' /\ Return(self)
      BY <1>0, <1>17, <2>2, SaveOrder DEF FinishStart
    <3> QED
      BY <3>1, OrderReturn
  <2> QED
    BY <2>1, <2>2
<1>18. CASE ConfirmLoad(self)
  <2>1. /\ StoredUnlocked' /\ unlocked \subseteq unlocked'
        /\ GotoWith(self, "confirmSave", LoadProgression) \/ Return(self)
    BY <1>0, <1>18, StoreInferredOrder DEF ConfirmLoad
  <2> QED
    BY <2>1, OrderGoto, OrderReturn DEF Pc, AtWork
<1>19. CASE ConfirmSave(self)
  <2>1. StoredUnlocked' /\ unlocked \subseteq unlocked' /\ Return(self)
    BY <1>0, <1>19, SaveOrder DEF ConfirmSave
  <2> QED
    BY <2>1, OrderReturn
<1>20. CASE Crash(self)
  <2>1. StoredUnlocked' /\ unlocked \subseteq unlocked' /\ Return(self)
    BY <1>0, <1>20, OrderQuiet DEF Crash, storeVars
  <2> QED
    BY <2>1, OrderReturn
<1> QED
  BY <1>1, <1>2, <1>3, <1>4, <1>5, <1>6, <1>7, <1>8, <1>9, <1>10, <1>11, <1>12, <1>13, <1>14,
     <1>15, <1>16, <1>17, <1>18, <1>19, <1>20 DEF Step, Advance

(***************************************************************************)
(* No phase is begun, run or finished before its prerequisites were met on *)
(* disk, whatever overlapping calls, crashes and exits do to .meta.        *)
(***************************************************************************)
THEOREM PhasesInOrder == Spec => []RunsOnlyUnlocked
<1>1. Init => Typed /\ Order
  BY TypedInit, OrderInit
<1>2. Typed /\ Order /\ [Next]_vars => Typed' /\ Order'
  <2>1. ASSUME Typed, Order, Next PROVE Typed' /\ Order'
    BY <2>1, TypedStep, OrderStep DEF Next
  <2>2. ASSUME Typed, Order, UNCHANGED vars PROVE Typed' /\ Order'
    BY <2>2 DEF vars, storeVars, orchVars, Typed, FilesOK, FramesOK, StoreTypeOK,
                Order, StoredUnlocked, Allowed, Startable, Unmet, PrerequisiteMet
  <2> QED
    BY <2>1, <2>2
<1>3. Typed /\ Order => RunsOnlyUnlocked
  BY DEF Typed, FramesOK, FrameOK, Order, Allowed, RunsOnlyUnlocked, AtWork
<1> QED
  BY <1>1, <1>2, <1>3, PTL DEF Spec

(***************************************************************************)
(* Completed phases and their artifacts.  A status is written long after   *)
(* it is decided, from a copy in memory; so besides the two places a       *)
(* status is kept, the invariant says what each step that is about to      *)
(* write COMPLETED already knows to be there.  It rests on artifacts never *)
(* being taken away.                                                       *)
(***************************************************************************)

(* The artifacts whose presence a phase's COMPLETED promises.              *)
Promised(p) ==
    CASE p = "collect_triage" -> {"collector"}
      [] p = "assignment"     -> {"assignment"}
      [] p = "reality_check"  -> {"reality_check"}
      [] p = "synthesis"      -> {"report"}
      [] OTHER                -> {}

(* Backed, phase by phase.                                                 *)
LEMMA BackedByPromise ==
  ASSUME NEW prog
  PROVE  Backed(prog) <=>
           \A p \in Phase : prog[p].status = "completed" => Promised(p) \subseteq arts
  BY DEF Backed, Promised, Phase

(* What a frame that ends a run, or that run_assessment.py started, knows. *)
Knows(f) ==
    /\ Backed(f.prog)
    /\ f.pc = "finish" => Promised(f.cur) \subseteq arts
    /\ f.op \in {"assess", "strict"} => "reality_check" \in arts
    /\ f.op = "start" => f.cur \in {"collect_triage", "analysis"} /\ f.target = "analysis"

StoreBacked ==
    /\ "triage" \in arts => "collector" \in arts
    /\ meta # NoMeta => Backed(meta)

BackedInv == StoreBacked /\ \A self \in Procs : Knows(orch[self])

(* Nothing is promised of phases that have not run.                        *)
LEMMA NewBacked == Backed(NewProgression)
  BY DEF Backed, NewProgression, Phase

(* An inferred status is read off the artifact itself.                     *)
LEMMA InferBacked ==
  ASSUME StoreBacked
  PROVE  Backed(InferProgression)
  BY DEF StoreBacked, Backed, InferProgression, InferredPhases, Phase

(* What a load returns is backed, and so is what it stores.                *)
LEMMA StoreInferredBacked ==
  ASSUME StoreBacked, StoreInferred, UNCHANGED arts
  PROVE  StoreBacked' /\ Backed(LoadProgression)
<1>1. Backed(LoadProgression)
  BY InferBacked DEF LoadProgression, StoreBacked
<1>2. meta' = LoadProgression
  BY DEF StoreInferred, SaveProgression, LoadProgression
<1> QED
  BY <1>1, <1>2 DEF StoreBacked, Backed

(* Saving a backed progression keeps .meta backed.                         *)
LEMMA SaveBacked ==
  ASSUME StoreBacked, NEW prog, Backed(prog), SaveProgression(prog), UNCHANGED arts
  PROVE  StoreBacked'
  BY DEF SaveProgression, StoreBacked, Backed

(* Setting a status other than COMPLETED promises nothing; COMPLETED needs *)
(* the output to be there.                                                 *)
LEMMA SetBacked ==
  ASSUME NEW prog \in Progression, Backed(prog), NEW p \in Phase, NEW status, NEW skip,
         status = "completed" => Promised(p) \subseteq arts
  PROVE  Backed(SetPhaseStatus(prog, p, status, skip))
<1> DEFINE new == SetPhaseStatus(prog, p, status, skip)
<1>1. ASSUME NEW q \in Phase, new[q].status = "completed"
      PROVE  Promised(q) \subseteq arts
  <2>1. CASE q = p
    BY <1>1, <2>1 DEF SetPhaseStatus, Progression
  <2>2. CASE q # p
    <3>1. new[q] = prog[q]
      BY <2>2 DEF SetPhaseStatus, Progression
    <3> QED
      BY <1>1, <3>1, BackedByPromise
  <2> QED
    BY <2>1, <2>2
<1> QED
  BY <1>1, BackedByPromise

(* Of what run_assessment.py assigns, the reality check alone is promised. *)
LEMMA ForcedBacked ==
  ASSUME NEW prog \in Progression, Backed(prog), NEW target \in Phase, "reality_check" \in arts
  PROVE  Backed(Forced(prog, target))
<1> DEFINE checked == [prog EXCEPT !["reality_check"].status = "completed"]
           designed == [prog EXCEPT !["schema_design"].status = "completed"]
<1>1. CASE target = "schema_design"
  <2>1. checked \in Progression
    BY DEF Progression, PhaseRecord, PhaseStatus, Phase
  <2>2. Backed(checked)
    BY DEF Backed, Progression, Phase
  <2>3. "assignment_review" \in Phase /\ Promised("assignment_review") = {}
    BY DEF Phase, Promised
  <2> QED
    BY <1>1, <2>1, <2>2, <2>3, SetBacked DEF Forced
<1>2. CASE target # "schema_design"
  <2>1. Backed(designed)
    BY DEF Backed, Progression, Phase
  <2> QED
    BY <1>2, <2>1 DEF Forced
<1> QED
  BY <1>1, <1>2

(* A phase that returns has written what its COMPLETED promises.           *)
LEMMA OutputsPromised ==
  ASSUME NEW p \in Phase
  PROVE  /\ Promised(p) \subseteq Outputs(p)
         /\ "triage" \in Outputs(p) => "collector" \in Outputs(p)
  BY DEF Promised, Outputs, Artifact, Phase

(* More artifacts never break a promise.                                   *)
LEMMA BackedGrows ==
  ASSUME arts \subseteq arts', NEW prog, Backed(prog)
  PROVE  Backed(prog)'
  BY DEF Backed

(* The frame a step leaves its process in decides for all of them.         *)
LEMMA BackedFrame ==
  ASSUME Typed, BackedInv, NEW self \in Procs, StoreBacked', arts \subseteq arts',
         \A other \in Procs \ {self} : orch'[other] = orch[other],
         Knows(orch[self])'
  PROVE  BackedInv'
<1>1. ASSUME NEW other \in Procs, other # self
      PROVE  Knows(orch[other])'
  BY <1>1 DEF BackedInv, Knows, Backed
<1> QED
  BY <1>1 DEF BackedInv

(* A call that ends forgets what it knew.                                  *)
LEMMA BackedReturn ==
  ASSUME Typed, BackedInv, NEW self \in Procs, StoreBacked', arts \subseteq arts', Return(self)
  PROVE  BackedInv'
<1>1. orch'[self] = Idle /\ \A other \in Procs \ {self} : orch'[other] = orch[other]
  BY DEF Return, Typed, FramesOK
<1>2. Backed(NewProgression)'
  BY NewBacked, BackedGrows
<1>3. Knows(orch[self])'
  BY <1>1, <1>2 DEF Knows, Idle
<1> QED
  BY <1>1, <1>3, BackedFrame

(* A call that goes on with the phase it has, but does not end its run.    *)
GoesOn(self) ==
    /\ \A other \in Procs \ {self} : orch'[other] = orch[other]
    /\ orch'[self].prog = orch[self].prog
    /\ orch'[self].cur = orch[self].cur
    /\ orch'[self].target = orch[self].target
    /\ \/ orch'[self].op = orch[self].op
       \/ orch[self].op = "assess" /\ orch'[self].op = "strict"
    /\ orch'[self].pc # "finish"

(* A call that goes on with the progression it has.                        *)
LEMMA BackedGoto ==
  ASSUME Typed, BackedInv, NEW self \in Procs, StoreBacked', arts \subseteq arts', GoesOn(self)
  PROVE  BackedInv'
<1>1. Knows(orch[self])
  BY DEF BackedInv
<1>2. Backed(orch[self].prog)'
  BY <1>1 DEF Knows, Backed, GoesOn
<1>3. Knows(orch[self])'
  BY <1>1, <1>2 DEF Knows, GoesOn
<1> QED
  BY <1>3, BackedFrame DEF GoesOn

(* Nobody has run anything, and scripts run in the order of the pipeline.  *)
LEMMA BackedInit == Init => BackedInv
<1> SUFFICES ASSUME Init PROVE BackedInv
  OBVIOUS
<1>1. StoreBacked
  BY DEF Init, StoreBacked, InitialArts
<1>2. \A self \in Procs : Knows(orch[self])
  BY NewBacked DEF Init, Idle, Knows
<1> QED
  BY <1>1, <1>2 DEF BackedInv

(* Every step of a process keeps what is COMPLETED backed.                 *)
LEMMA BackedStep ==
  ASSUME Typed, BackedInv, NEW self \in Procs, Step(self)
  PROVE  BackedInv'
<1> DEFINE f == orch[self]
<1>0. /\ f \in Frame /\ FrameOK(f) /\ FilesOK /\ FramesOK
      /\ StoreBacked /\ Knows(f)
      /\ f.prog \in Progression /\ f.cur \in Phase /\ f.target \in Phase
  BY DEF Typed, FramesOK, BackedInv, Frame
<1>1. CASE \/ ResumePhase(self) \/ ConfirmAll(self) \/ StartJob(self)
           \/ AssessSchemaDesign(self) \/ AssessSynthesis(self)
  <2>1. UNCHANGED <<meta, arts>>
    BY <1>1 DEF ResumePhase, ConfirmAll, StartJob, AssessSchemaDesign, AssessSynthesis, Call, storeVars
  <2>2. StoreBacked' /\ arts \subseteq arts'
    BY <1>0, <2>1 DEF StoreBacked, Backed
  <2>3. /\ \A other \in Procs \ {self} : orch'[other] = orch[other]
        /\ orch'[self].prog = NewProgression
        /\ orch'[self].pc # "finish"
        /\ orch'[self].op \in {"assess", "strict"} => "reality_check" \in arts
        /\ orch'[self].op = "start" =>
              orch'[self].cur = "collect_triage" /\ orch'[self].target = "analysis"
    <3>1. CASE ResumePhase(self) \/ ConfirmAll(self) \/ StartJob(self)
      BY <1>0, <3>1 DEF ResumePhase, ConfirmAll, StartJob, Call, FramesOK
    <3>2. CASE AssessSchemaDesign(self) \/ AssessSynthesis(self)
      BY <1>0, <3>2 DEF AssessSchemaDesign, AssessSynthesis, AssessFrame, At, FramesOK, FrameOK, Knows
    <3> QED
      BY <1>1, <3>1, <3>2
  <2>4. Knows(orch[self])'
    BY <2>1, <2>3, NewBacked DEF Knows, Backed
  <2> QED
    BY <2>2, <2>3, <2>4, BackedFrame
<1>2. CASE RoutingRaises(self) \/ MarkRead(self) \/ MarkWrite(self)
           \/ ClearRead(self) \/ ClearWrite(self) \/ RunExits(self) \/ Crash(self)
  <2>1. UNCHANGED <<meta, arts>>
    BY <1>2 DEF RoutingRaises, MarkRead, MarkWrite, ClearRead, ClearWrite, RunExits, Crash, storeVars
  <2>2. StoreBacked' /\ arts \subseteq arts'
    BY <1>0, <2>1 DEF StoreBacked, Backed
  <2>3. CASE Return(self)
    BY <2>2, <2>3, BackedReturn
  <2>4. CASE ~Return(self)
    <3>1. GoesOn(self)
      <4>1. CASE RoutingRaises(self) \/ MarkRead(self)
        BY <1>0, <2>4, <4>1 DEF GoesOn, RoutingRaises, MarkRead, Goto, FramesOK, Frame
      <4>2. CASE ClearRead(self)
        BY <1>0, <4>2 DEF GoesOn, ClearRead, At, Goto, FramesOK, Frame
      <4>3. CASE ClearWrite(self)
        BY <1>0, <4>3 DEF GoesOn, ClearWrite, FramesOK, Frame
      <4> QED
        BY <1>2, <2>4, <4>1, <4>2, <4>3 DEF MarkWrite, RunExits, Crash
    <3> QED
      BY <2>2, <3>1, BackedGoto
  <2> QED
    BY <2>3, <2>4
<1>3. CASE GetProgression(self)
  <2>1. UNCHANGED <<meta, arts>>
    BY <1>3 DEF GetProgression, storeVars
  <2>2. StoreBacked' /\ arts \subseteq arts'
    BY <1>0, <2>1 DEF StoreBacked, Backed
  <2>3. /\ \A other \in Procs \ {self} : orch'[other] = orch[other]
        /\ orch'[self].prog = IF meta = NoMeta THEN NewProgression ELSE meta
        /\ orch'[self].pc # "finish" /\ orch'[self].op = f.op
        /\ orch'[self].cur = f.cur /\ orch'[self].target = f.target
    BY <1>0, <1>3 DEF GetProgression, GotoWith, FramesOK, Frame
  <2>4. Backed(orch[self].prog)'
    BY <1>0, <2>1, <2>3, NewBacked DEF StoreBacked, Backed
  <2>5. Knows(orch[self])'
    BY <1>0, <2>1, <2>3, <2>4 DEF Knows
  <2> QED
    BY <2>2, <2>3, <2>5, BackedFrame
<1>4. CASE AdoptAssessed(self)
  <2>1. f.op = "assess" /\ "reality_check" \in arts
    BY <1>0, <1>4 DEF AdoptAssessed, At, FrameOK, Knows
  <2>2. Backed(Forced(f.prog, f.target))
    BY <1>0, <2>1, ForcedBacked DEF Knows
  <2>3. StoreBacked' /\ arts \subseteq arts'
    BY <1>0, <1>4, <2>2, SaveBacked DEF AdoptAssessed
  <2>4. GoesOn(self)
    BY <1>0, <1>4, <2>1 DEF GoesOn, AdoptAssessed, FramesOK, Frame
  <2> QED
    BY <2>1, <2>3, <2>4, BackedGoto
<1>5. CASE Descend(self)
  <2>1. StoreBacked' /\ UNCHANGED arts
    BY <1>0, <1>5, StoreInferredBacked DEF Descend
  <2>2. f.op = "resume"
    BY <1>0, <1>5 DEF Descend, At, FrameOK
  <2>3. /\ \A other \in Procs \ {self} : orch'[other] = orch[other]
        /\ orch'[self].prog = f.prog /\ orch'[self].op = f.op /\ orch'[self].pc # "finish"
    BY <1>0, <1>5 DEF Descend, At, Goto, NextFrame, FramesOK, Frame
  <2>4. Knows(orch[self])'
    BY <1>0, <2>1, <2>2, <2>3 DEF Knows, Backed
  <2> QED
    BY <2>1, <2>3, <2>4, BackedFrame
<1>6. CASE Reload(self) \/ Load(self)
  <2>1. StoreBacked' /\ UNCHANGED arts /\ Backed(LoadProgression)
    BY <1>0, <1>6, StoreInferredBacked DEF Reload, Load
  <2>2. /\ \A other \in Procs \ {self} : orch'[other] = orch[other]
        /\ orch'[self].prog = LoadProgression /\ orch'[self].cur = f.cur
        /\ orch'[self].target = f.target /\ orch'[self].op = f.op
        /\ orch'[self].pc # "finish"
    BY <1>0, <1>6 DEF Reload, Load, GotoWith, FramesOK, Frame
  <2>3. Backed(orch[self].prog)'
    BY <2>1, <2>2 DEF Backed
  <2>4. Knows(orch[self])'
    BY <1>0, <2>1, <2>2, <2>3 DEF Knows
  <2> QED
    BY <2>1, <2>2, <2>4, BackedFrame
<1>7. CASE Validate(self)
  <2>1. StoreBacked' /\ UNCHANGED arts
    BY <1>0, <1>7, StoreInferredBacked DEF Validate
  <2>2. CASE Return(self)
    BY <2>1, <2>2, BackedReturn
  <2>3. CASE ~Return(self)
    <3>1. GoesOn(self)
      BY <1>0, <1>7, <2>3 DEF GoesOn, Validate, Raise, Goto, FramesOK, Frame
    <3> QED
      BY <2>1, <3>1, BackedGoto
  <2> QED
    BY <2>2, <2>3
<1>8. CASE Begin(self)
  <2> DEFINE prog == SetPhaseStatus(f.prog, f.cur, "in_progress", "none")
  <2>1. Backed(prog)
    BY <1>0, SetBacked DEF Knows
  <2>2. StoreBacked' /\ UNCHANGED arts
    BY <1>0, <1>8, <2>1, SaveBacked DEF Begin
  <2>3. /\ \A other \in Procs \ {self} : orch'[other] = orch[other]
        /\ orch'[self].prog = prog /\ orch'[self].cur = f.cur
        /\ orch'[self].target = f.target /\ orch'[self].op = f.op
        /\ orch'[self].pc # "finish"
    BY <1>0, <1>8 DEF Begin, GotoWith, FramesOK, Frame
  <2> HIDE DEF prog
  <2>4. Backed(orch[self].prog)'
    BY <2>1, <2>2, <2>3 DEF Backed
  <2>5. Knows(orch[self])'
    BY <1>0, <2>2, <2>3, <2>4 DEF Knows
  <2> QED
    BY <2>2, <2>3, <2>5, BackedFrame
<1>9. CASE RunReturns(self)
  <2>1. arts \subseteq arts' /\ Promised(f.cur) \subseteq arts'
    BY <1>0, <1>9, OutputsPromised DEF RunReturns
  <2>2. StoreBacked'
    BY <1>0, <1>9, OutputsPromised DEF RunReturns, StoreBacked, Backed
  <2>3. /\ \A other \in Procs \ {self} : orch'[other] = orch[other]
        /\ orch'[self].prog = f.prog /\ orch'[self].cur = f.cur
        /\ orch'[self].target = f.target /\ orch'[self].op = f.op
    BY <1>0, <1>9 DEF RunReturns, Goto, FramesOK, Frame
  <2>4. Backed(orch[self].prog)'
    BY <1>0, <2>1, <2>3 DEF Knows, Backed
  <2>5. Promised(orch'[self].cur) \subseteq arts'
    BY <2>1, <2>3
  <2>6. Knows(orch[self])'
    BY <1>0, <2>1, <2>3, <2>4, <2>5 DEF Knows, Promised
  <2> QED
    BY <2>1, <2>2, <2>3, <2>6, BackedFrame
<1>10. CASE RunRaises(self)
  <2>1. arts \subseteq arts' /\ ("triage" \in arts' => "collector" \in arts')
    BY <1>0, <1>10, OutputsPromised DEF RunRaises, PartialOutputs, StoreBacked
  <2>2. StoreBacked'
    BY <1>0, <1>10, <2>1 DEF RunRaises, StoreBacked, Backed
  <2>3. CASE Return(self)
    BY <2>1, <2>2, <2>3, BackedReturn
  <2>4. CASE Goto(self, "fail")
    <3>1. GoesOn(self)
      BY <1>0, <2>4 DEF GoesOn, Goto, FramesOK, Frame
    <3> QED
      BY <2>1, <2>2, <3>1, BackedGoto
  <2> QED
    BY <1>10, <2>3, <2>4 DEF RunRaises
<1>11. CASE Fail(self)
  <2>1. Backed(SetPhaseStatus(f.prog, f.cur, "failed", "none"))
    BY <1>0, SetBacked DEF Knows
  <2>2. StoreBacked' /\ UNCHANGED arts
    BY <1>0, <1>11, <2>1, SaveBacked DEF Fail
  <2>3. CASE Return(self)
    BY <2>2, <2>3, BackedReturn
  <2>4. CASE Goto(self, "markRead")
    <3>1. GoesOn(self)
      BY <1>0, <2>4 DEF GoesOn, Goto, FramesOK, Frame
    <3> QED
      BY <2>2, <3>1, BackedGoto
  <2> QED
    BY <1>11, <2>3, <2>4 DEF Fail, Raise
<1>12. CASE FinishPrerequisite(self)
  <2> DEFINE prog == IF Skips(f.cur) THEN SetPhaseStatus(f.prog, f.cur, "skipped", "no_llm")
                                     ELSE SetPhaseStatus(f.prog, f.cur, "completed", "none")
  <2>1. Promised(f.cur) \subseteq arts /\ f.op = "resume"
    BY <1>0, <1>12 DEF FinishPrerequisite, At, Knows
  <2>2. Backed(prog)
    BY <1>0, <2>1, SetBacked DEF Knows
  <2>3. StoreBacked' /\ UNCHANGED arts
    BY <1>0, <1>12, <2>2, SaveBacked DEF FinishPrerequisite
  <2>4. /\ \A other \in Procs \ {self} : orch'[other] = orch[other]
        /\ orch'[self].prog = prog /\ orch'[self].op = f.op /\ orch'[self].pc # "finish"
    BY <1>0, <1>12 DEF FinishPrerequisite, NextFrame, FramesOK, Frame
  <2> HIDE DEF prog
  <2>5. Backed(orch[self].prog)'
    BY <2>2, <2>3, <2>4 DEF Backed
  <2>6. Knows(orch[self])'
    BY <2>1, <2>4, <2>5 DEF Knows
  <2> QED
    BY <2>3, <2>4, <2>6, BackedFrame
<1>13. CASE FinishResume(self)
  <2> DEFINE prog == IF Skips(f.cur) THEN SetPhaseStatus(f.prog, f.cur, "skipped", "no_llm")
                     ELSE SetPhaseStatus(f.prog, f.cur,
                            IF f.cur \in FanOutPhases THEN "awaiting_review" ELSE "completed", "none")
  <2>1. Promised(f.cur) \subseteq arts
    BY <1>0, <1>13 DEF FinishResume, At, Knows
  <2>2. Backed(prog)
    BY <1>0, <2>1, SetBacked DEF Knows
  <2>3. StoreBacked' /\ UNCHANGED arts
    BY <1>0, <1>13, <2>2, SaveBacked DEF FinishResume
  <2>4. CASE Return(self)
    BY <2>3, <2>4, BackedReturn
  <2>5. CASE Goto(self, "assessed")
    <3>1. GoesOn(self)
      BY <1>0, <2>5 DEF GoesOn, Goto, FramesOK, Frame
    <3> QED
      BY <2>3, <3>1, BackedGoto
  <2> QED
    BY <1>13, <2>4, <2>5 DEF FinishResume
<1>14. CASE FinishStart(self)
  <2>1. CASE Nested(self)
    <3> DEFINE prog == SetPhaseStatus(f.prog, "collect_triage", "completed", "none")
    <3>1. f.cur = "collect_triage" /\ f.target = "analysis" /\ f.op = "start"
      BY <1>0, <1>14, <2>1 DEF FinishStart, Knows, Nested
    <3>2. Promised("collect_triage") \subseteq arts /\ "collect_triage" \in Phase
      BY <1>0, <1>14, <3>1 DEF FinishStart, At, Knows
    <3>3. Backed(prog)
      BY <1>0, <3>2, SetBacked DEF Knows
    <3>4. StoreBacked' /\ UNCHANGED arts
      BY <1>0, <1>14, <2>1, <3>3, SaveBacked DEF FinishStart
    <3>5. /\ \A other \in Procs \ {self} : orch'[other] = orch[other]
          /\ orch'[self].prog = prog /\ orch'[self].op = "start" /\ orch'[self].pc # "finish"
          /\ orch'[self].cur = "analysis" /\ orch'[self].target = "analysis"
      BY <1>0, <1>14, <2>1, <3>1 DEF FinishStart, FramesOK, Frame
    <3> HIDE DEF prog
    <3>6. Backed(orch[self].prog)'
      BY <3>3, <3>4, <3>5 DEF Backed
    <3>7. Knows(orch[self])'
      BY <3>5, <3>6 DEF Knows
    <3> QED
      BY <3>4, <3>5, <3>7, BackedFrame
  <2>2. CASE ~Nested(self)
    <3>1. Backed(SetPhaseStatus(f.prog, "analysis", "awaiting_review", "none"))
      BY <1>0, SetBacked DEF Knows, Phase
    <3>2. StoreBacked' /\ UNCHANGED arts /\ Return(self)
      BY <1>0, <1>14, <2>2, <3>1, SaveBacked DEF FinishStart
    <3> QED
      BY <3>2, BackedReturn
  <2> QED
    BY <2>1, <2>2
<1>15. CASE ConfirmLoad(self)
  <2>1. StoreBacked' /\ UNCHANGED arts /\ Backed(LoadProgression)
    BY <1>0, <1>15, StoreInferredBacked DEF ConfirmLoad
  <2>2. CASE Return(self)
    BY <2>1, <2>2, BackedReturn
  <2>3. CASE GotoWith(self, "confirmSave", LoadProgression)
    <3>1. /\ \A other \in Procs \ {self} : orch'[other] = orch[other]
          /\ orch'[self].prog = LoadProgression /\ orch'[self].cur = f.cur
          /\ orch'[self].target = f.target /\ orch'[self].op = f.op
          /\ orch'[self].pc # "finish"
      BY <1>0, <2>3 DEF GotoWith, FramesOK, Frame
    <3>2. Backed(orch[self].prog)'
      BY <2>1, <3>1 DEF Backed
    <3>3. Knows(orch[self])'
      BY <1>0, <2>1, <3>1, <3>2 DEF Knows
    <3> QED
      BY <2>1, <3>1, <3>3, BackedFrame
  <2> QED
    BY <1>15, <2>2, <2>3 DEF ConfirmLoad
<1>16. CASE ConfirmSave(self)
  <2>1. Promised("schema_design") = {} /\ "schema_design" \in Phase
    BY DEF Promised, Phase
  <2>2. Backed(SetPhaseStatus(f.prog, "schema_design", "completed", "none"))
    BY <1>0, <2>1, SetBacked DEF Knows
  <2>3. StoreBacked' /\ UNCHANGED arts /\ Return(self)
    BY <1>0, <1>16, <2>2, SaveBacked DEF ConfirmSave
  <2> QED
    BY <2>3, BackedReturn
<1> QED
  BY <1>1, <1>2, <1>3, <1>4, <1>5, <1>6, <1>7, <1>8, <1>9, <1>10, <1>11, <1>12, <1>13, <1>14,
     <1>15, <1>16 DEF Step, Advance

(***************************************************************************)
(* A run that raised, exited, was killed or was overtaken by another       *)
(* process never leaves its phase COMPLETED without the phase's output, in *)
(* .meta or in any copy a process will write back.                         *)
(***************************************************************************)
THEOREM CompletedHasOutput == Spec => []CompletedIsBacked
<1>1. Init => Typed /\ BackedInv
  BY TypedInit, BackedInit
<1>2. Typed /\ BackedInv /\ [Next]_vars => Typed' /\ BackedInv'
  <2>1. ASSUME Typed, BackedInv, Next PROVE Typed' /\ BackedInv'
    BY <2>1, TypedStep, BackedStep DEF Next
  <2>2. ASSUME Typed, BackedInv, UNCHANGED vars PROVE Typed' /\ BackedInv'
    BY <2>2 DEF vars, storeVars, orchVars, Typed, FilesOK, FramesOK, StoreTypeOK,
                BackedInv, StoreBacked, Knows, Backed
  <2> QED
    BY <2>1, <2>2
<1>3. Typed /\ BackedInv => CompletedIsBacked
  BY DEF BackedInv, StoreBacked, Knows, CompletedIsBacked
<1> QED
  BY <1>1, <1>2, <1>3, PTL DEF Spec
(***************************************************************************)
(* One call at a time: the refinement of PhaseLifecycle                    *)
(***************************************************************************)

(* One process plays every role, so that no two calls overlap.             *)
OneProcess == \A p, q \in Procs : p = q

(* Nobody else writes .meta, so what a process holds in memory, or has     *)
(* checked, is what is stored.                                             *)
Checked(m, p) == m # NoMeta /\ Unmet(m, p) = {}

(* run_assessment.py, past its schema design.                              *)
Designed(m) == m # NoMeta /\ m["schema_design"].status \in {"awaiting_review", "skipped"}

InStep(m, f) ==
    /\ f.pc \in {"reload", "load"} => Checked(m, f.cur)
    /\ f.pc \in {"clearRead", "clearWrite"} /\ f.op # "assess" =>
          Checked(m, f.cur) /\ (f.cur # f.target => f.prog = m)
    /\ f.pc = "begin" => \/ f.cur = "collect_triage" /\ f.prog = NewProgression
                         \/ Checked(m, f.cur) /\ f.prog = m
    /\ f.pc \in {"run", "fail", "finish"} =>
          f.prog = m /\ f.prog[f.cur].status = "in_progress"
    /\ f.pc = "validate" => f.cur = f.target
    /\ f.op = "start" => f.target = "analysis"
    /\ f.pc = "force" => f.prog = (IF m = NoMeta THEN NewProgression ELSE m)
    /\ f.pc = "assessed" \/ (f.op = "assess" /\ f.cur = "synthesis") => Designed(m)
    /\ f.pc = "confirmSave" =>
          f.prog = m /\ f.prog["schema_design"].status = "awaiting_review"

AllInStep == \A self \in Procs : InStep(meta, orch[self])

(* The abstract specification has the same phase contract.                 *)
LEMMA SameContract ==
  /\ Lifecycle!Phase = Phase /\ Lifecycle!FanOutPhases = FanOutPhases
  /\ \A p : Lifecycle!Prerequisites(p) = Prerequisites(p)
  /\ \A p, q : Lifecycle!SkipAccepted(p, q) = SkipAccepted(p, q)
BY DEF Lifecycle!Phase, Phase, Lifecycle!FanOutPhases, FanOutPhases,
       Lifecycle!Prerequisites, Prerequisites, Lifecycle!SkipAccepted, SkipAccepted

(* Reading .meta infers a progression, or leaves it as it is.              *)
LEMMA InferFollows ==
  ASSUME Typed, StoreInferred
  PROVE  /\ Lifecycle!Infer \/ StatusOnDisk' = StatusOnDisk
         /\ meta' = LoadProgression /\ meta' \in Progression /\ meta' # NoMeta
         /\ meta # NoMeta => meta' = meta
<1>1. meta' = LoadProgression /\ meta' \in Progression /\ meta' # NoMeta
  BY StoreInferredType, StoreAssumption DEF Typed
<1>2. CASE meta # NoMeta
  BY <1>1, <1>2 DEF StoreInferred, StatusOnDisk
<1>3. CASE meta = NoMeta
  <2>1. meta' = InferProgression
    BY <1>1, <1>3 DEF LoadProgression
  <2>2. StatusOnDisk = Lifecycle!NotStarted
    BY <1>3, SameContract DEF StatusOnDisk, Lifecycle!NotStarted
  <2>3. InferredPhases \in SUBSET Lifecycle!Inferable
    BY DEF InferredPhases, Lifecycle!Inferable
  <2>4. StatusOnDisk' = [p \in Phase |-> InferProgression[p].status]
    BY <1>1, <2>1 DEF StatusOnDisk
  <2>5. StatusOnDisk' = [p \in Phase |-> IF p \in InferredPhases THEN "completed"
                                                                 ELSE "not_started"]
    BY <2>4 DEF InferProgression
  <2> QED
    BY <1>1, <1>3, <2>2, <2>3, <2>5, SameContract DEF Lifecycle!Infer
<1> QED
  BY <1>1, <1>2, <1>3

(* Writing one phase's status.                                             *)
LEMMA StatusWritten ==
  ASSUME Typed, meta \in Progression, NEW p \in Phase, NEW status \in PhaseStatus, NEW skip,
         meta' = SetPhaseStatus(meta, p, status, skip), meta' \in Progression
  PROVE  StatusOnDisk' = [StatusOnDisk EXCEPT ![p] = status]
<1>1. meta # NoMeta /\ meta' # NoMeta /\ meta \in [Phase -> PhaseRecord]
  BY StoreAssumption DEF Progression
<1>2. \A q \in Phase : meta'[q].status = IF q = p THEN status ELSE meta[q].status
  BY <1>1 DEF SetPhaseStatus, PhaseRecord
<1>3. StatusOnDisk = [q \in Phase |-> meta[q].status]
  BY <1>1 DEF StatusOnDisk
<1>4. StatusOnDisk' = [q \in Phase |-> meta'[q].status]
  BY <1>1 DEF StatusOnDisk
<1> QED
  BY <1>2, <1>3, <1>4

(* A phase whose prerequisites the stored progression meets may begin.     *)
LEMMA CheckedMet ==
  ASSUME Typed, NEW p \in Phase, Checked(meta, p)
  PROVE  Lifecycle!Met(p)
<1>1. SUFFICES ASSUME NEW q \in Prerequisites(p)
               PROVE  \/ StatusOnDisk[q] = "completed"
                      \/ SkipAccepted(p, q) /\ StatusOnDisk[q] = "skipped"
  BY SameContract DEF Lifecycle!Met
<1>2. q \in Phase /\ PrerequisiteMet(meta, p, q)
  BY PrerequisiteRank DEF Checked, Unmet
<1> QED
  BY <1>2 DEF StatusOnDisk, PrerequisiteMet, Checked

(* A phase that is begun.                                                  *)
LEMMA BeginFollows ==
  ASSUME Typed, meta \in Progression, NEW p \in Phase, Checked(meta, p),
         meta' = SetPhaseStatus(meta, p, "in_progress", "none")
  PROVE  Lifecycle!Begin(p) /\ meta' \in Progression
<1>1. meta' \in Progression
  BY SetPhaseStatusType DEF PhaseStatus, SkipReason
<1>2. StatusOnDisk' = [StatusOnDisk EXCEPT ![p] = "in_progress"]
  BY <1>1, StatusWritten DEF PhaseStatus
<1> QED
  BY <1>1, <1>2, CheckedMet DEF Lifecycle!Begin

(* A phase that ends.                                                      *)
LEMMA EndFollows ==
  ASSUME Typed, meta \in Progression, NEW p \in Phase, meta[p].status = "in_progress",
         NEW status \in {"completed", "failed", "awaiting_review", "skipped"},
         NEW skip \in SkipReason,
         status = "awaiting_review" => p \in FanOutPhases,
         status = "skipped" => p = "schema_design", status # "skipped" => skip = "none",
         meta' = SetPhaseStatus(meta, p, status, skip)
  PROVE  Lifecycle!End(p) /\ meta' \in Progression
<1>1. meta' \in Progression
  BY SetPhaseStatusType DEF PhaseStatus
<1>2. StatusOnDisk' = [StatusOnDisk EXCEPT ![p] = status]
  BY <1>1, StatusWritten DEF PhaseStatus
<1>3. StatusOnDisk[p] = "in_progress"
  BY StoreAssumption DEF StatusOnDisk
<1>4. status \in Lifecycle!Outcomes(p)
  BY SameContract DEF Lifecycle!Outcomes
<1> QED
  BY <1>1, <1>2, <1>3, <1>4 DEF Lifecycle!End

(* A schema design that is confirmed.                                      *)
LEMMA ConfirmFollows ==
  ASSUME Typed, meta \in Progression, meta["schema_design"].status = "awaiting_review",
         meta' = SetPhaseStatus(meta, "schema_design", "completed", "none")
  PROVE  Lifecycle!Confirm /\ meta' \in Progression
<1>0. "schema_design" \in Phase
  BY DEF Phase
<1>1. meta' \in Progression
  BY <1>0, SetPhaseStatusType DEF PhaseStatus, SkipReason
<1>2. StatusOnDisk' = [StatusOnDisk EXCEPT !["schema_design"] = "completed"]
  BY <1>0, <1>1, StatusWritten DEF PhaseStatus
<1>3. StatusOnDisk["schema_design"] = "awaiting_review"
  BY <1>0, StoreAssumption DEF StatusOnDisk
<1> QED
  BY <1>1, <1>2, <1>3 DEF Lifecycle!Confirm

(* What run_assessment.py ran itself, adopted.                             *)
LEMMA AdoptFollows ==
  ASSUME Typed, NEW prog \in Progression, NEW target \in {"schema_design", "synthesis"},
         prog = (IF meta = NoMeta THEN NewProgression ELSE meta),
         target = "synthesis" => Designed(meta),
         meta' = Forced(prog, target)
  PROVE  Lifecycle!AdoptReview \/ Lifecycle!Confirm \/ StatusOnDisk' = StatusOnDisk
<1>0. /\ {"schema_design", "reality_check", "assignment_review"} \subseteq Phase
      /\ prog \in [Phase -> PhaseRecord]
  BY DEF Phase, Progression
<1>1. meta' \in Progression /\ meta' # NoMeta
  BY ForcedType, StoreAssumption DEF Phase
<1>2. StatusOnDisk = [q \in Phase |-> prog[q].status]
  BY <1>0 DEF StatusOnDisk, NewProgression
<1>3. StatusOnDisk' = [q \in Phase |-> meta'[q].status]
  BY <1>1 DEF StatusOnDisk
<1>4. CASE target = "schema_design"
  <2>1. \A q \in Phase : meta'[q].status =
           IF q \in {"reality_check", "assignment_review"} THEN "completed" ELSE prog[q].status
    BY <1>0, <1>4 DEF Forced, SetPhaseStatus, PhaseRecord
  <2> QED
    BY <1>2, <1>3, <2>1 DEF Lifecycle!AdoptReview
<1>5. CASE target = "synthesis" /\ prog["schema_design"].status = "skipped"
  BY <1>2, <1>3, <1>5 DEF Forced
<1>6. CASE target = "synthesis" /\ prog["schema_design"].status # "skipped"
  <2>1. meta' = [prog EXCEPT !["schema_design"].status = "completed"]
    BY <1>6 DEF Forced
  <2>2. \A q \in Phase : meta'[q].status =
           IF q = "schema_design" THEN "completed" ELSE prog[q].status
    BY <1>0, <2>1 DEF PhaseRecord
  <2>3. StatusOnDisk["schema_design"] = "awaiting_review"
    BY <1>0, <1>2, <1>6 DEF Designed
  <2> QED
    BY <1>2, <1>3, <2>2, <2>3 DEF Lifecycle!Confirm
<1> QED
  BY <1>4, <1>5, <1>6

(* A new job under the same id.                                            *)
LEMMA StartFollows ==
  ASSUME Typed,
         meta' = SetPhaseStatus(NewProgression, "collect_triage", "in_progress", "none")
  PROVE  Lifecycle!Restart /\ meta' \in Progression
<1>0. "collect_triage" \in Phase
  BY DEF Phase
<1>1. meta' \in Progression /\ meta' # NoMeta
  BY <1>0, SetPhaseStatusType, NewProgressionType, StoreAssumption DEF PhaseStatus, SkipReason
<1>2. StatusOnDisk' = [q \in Phase |-> meta'[q].status]
  BY <1>1 DEF StatusOnDisk
<1>3. \A q \in Phase : meta'[q].status = IF q = "collect_triage" THEN "in_progress"
                                                                  ELSE "not_started"
  BY <1>0 DEF SetPhaseStatus, NewProgression
<1> QED
  BY <1>1, <1>2, <1>3, SameContract DEF Lifecycle!Restart, Lifecycle!NotStarted

(* Steps that leave .meta alone.                                           *)
LEMMA QuietInStep ==
  ASSUME Typed, NEW self \in Procs, InStep(meta, orch[self]),
         \/ ResumePhase(self) \/ ConfirmAll(self) \/ StartJob(self)
         \/ AssessSchemaDesign(self) \/ AssessSynthesis(self) \/ RoutingRaises(self)
         \/ GetProgression(self) \/ MarkRead(self) \/ MarkWrite(self)
         \/ ClearRead(self) \/ ClearWrite(self)
         \/ RunReturns(self) \/ RunRaises(self) \/ RunExits(self) \/ Crash(self)
  PROVE  InStep(meta', orch'[self]) /\ meta' = meta
<1> DEFINE f == orch[self]
<1>0. f \in Frame /\ FrameOK(f) /\ orch \in [Procs -> Frame]
  BY DEF Typed, FramesOK
<1>1. meta' = meta
  BY DEF ResumePhase, ConfirmAll, StartJob, Call, AssessSchemaDesign, AssessSynthesis,
         RoutingRaises, GetProgression, MarkRead, MarkWrite, ClearRead, ClearWrite,
         RunReturns, RunRaises, RunExits, Crash, storeVars
<1> SUFFICES InStep(meta', orch'[self])
  BY <1>1
<1>2. ASSUME Return(self) PROVE InStep(meta', orch'[self])
  <2>1. orch'[self] = Idle
    BY <1>0, <1>2 DEF Return
  <2> QED
    BY <2>1 DEF Idle, InStep
<1>3. CASE ResumePhase(self)
  <2>1. PICK p : orch'[self] = [pc |-> "descend", op |-> "resume", cur |-> p, target |-> p,
                                clears |-> <<>>, prog |-> NewProgression]
    BY <1>0, <1>3 DEF ResumePhase, Call
  <2> QED
    BY <2>1 DEF InStep
<1>4. CASE ConfirmAll(self)
  <2>1. orch'[self].pc = "confirmLoad" /\ orch'[self].op = "confirm"
    BY <1>0, <1>4 DEF ConfirmAll, Call
  <2> QED
    BY <2>1 DEF InStep
<1>14. CASE StartJob(self)
  <2>1. /\ orch'[self].pc = "begin" /\ orch'[self].op = "start"
        /\ orch'[self].cur = "collect_triage" /\ orch'[self].target = "analysis"
        /\ orch'[self].prog = NewProgression
    BY <1>0, <1>14 DEF StartJob, Call
  <2> QED
    BY <2>1 DEF InStep
<1>15. CASE AssessSchemaDesign(self)
  <2>1. orch'[self] = AssessFrame("schema_design")
    BY <1>0, <1>15 DEF AssessSchemaDesign
  <2> QED
    BY <2>1 DEF AssessFrame, InStep
<1>5. CASE AssessSynthesis(self)
  <2>1. orch'[self] = AssessFrame("synthesis") /\ Designed(meta')
    BY <1>0, <1>1, <1>5 DEF AssessSynthesis, At, InStep
  <2> QED
    BY <2>1 DEF AssessFrame, InStep
<1>6. CASE RoutingRaises(self)
  <2>1. orch'[self].pc = "markRead" /\ orch'[self].op = "strict"
    BY <1>0, <1>6 DEF RoutingRaises, Goto, At, Frame, FrameOK
  <2> QED
    BY <2>1 DEF InStep
<1>7. CASE GetProgression(self)
  <2>1. orch'[self] = [f EXCEPT !.pc = "force",
                                !.prog = IF meta = NoMeta THEN NewProgression ELSE meta]
    BY <1>0, <1>7 DEF GetProgression, GotoWith, Frame
  <2>2. /\ orch'[self].pc = "force" /\ orch'[self].op = f.op /\ orch'[self].cur = f.cur
        /\ orch'[self].target = f.target
        /\ orch'[self].prog = (IF meta = NoMeta THEN NewProgression ELSE meta)
    BY <1>0, <2>1 DEF Frame
  <2> QED
    BY <1>1, <2>2 DEF InStep
<1>8. CASE MarkRead(self) \/ MarkWrite(self)
  <2>1. ASSUME Goto(self, "markWrite"), At(self, "markRead")
        PROVE  orch'[self].pc = "markWrite" /\ orch'[self].op = "strict"
    BY <1>0, <2>1 DEF Goto, At, Frame, FrameOK
  <2> QED
    BY <1>2, <1>8, <2>1 DEF MarkRead, MarkWrite, InStep
<1>9. CASE ClearRead(self)
  <2>1. f.pc = "clearRead"
    BY <1>9 DEF ClearRead, At
  <2>2. /\ orch'[self].op = f.op /\ orch'[self].cur = f.cur /\ orch'[self].target = f.target
        /\ orch'[self].prog = f.prog
    BY <1>0, <1>9 DEF ClearRead, Goto, Frame
  <2>3. \/ orch'[self].pc \in {"clearRead", "clearWrite"}
        \/ orch'[self].pc = "begin" /\ f.cur # f.target
        \/ orch'[self].pc = "getProgression" /\ f.op = "assess"
        \/ orch'[self].pc = "load" /\ f.op # "assess"
    BY <1>0, <1>9 DEF ClearRead, Goto, Nested, At, Frame
  <2>4. f.cur # f.target => f.op # "assess"
    BY <1>0 DEF FrameOK
  <2> QED
    BY <1>1, <2>1, <2>2, <2>3, <2>4 DEF InStep
<1>10. CASE ClearWrite(self)
  <2>1. f.pc = "clearWrite"
    BY <1>10 DEF ClearWrite, At
  <2>2. /\ orch'[self].op = f.op /\ orch'[self].cur = f.cur /\ orch'[self].target = f.target
        /\ orch'[self].prog = f.prog /\ orch'[self].pc = "clearRead"
    BY <1>0, <1>10 DEF ClearWrite, Frame
  <2> QED
    BY <1>1, <2>1, <2>2 DEF InStep
<1>11. ASSUME f.pc = "run", NEW pc \in {"finish", "fail"}, Goto(self, pc)
       PROVE  InStep(meta', orch'[self])
  <2>1. /\ orch'[self].op = f.op /\ orch'[self].cur = f.cur /\ orch'[self].prog = f.prog
        /\ orch'[self].target = f.target /\ orch'[self].pc = pc
    BY <1>0, <1>11 DEF Goto, Frame
  <2>2. f.op # "assess"
    BY <1>0, <1>11 DEF FrameOK
  <2> QED
    BY <1>1, <1>11, <2>1, <2>2 DEF InStep
<1>12. CASE RunReturns(self) \/ RunRaises(self)
  BY <1>2, <1>11, <1>12 DEF RunReturns, RunRaises, At
<1>13. CASE RunExits(self) \/ Crash(self)
  BY <1>2, <1>13 DEF RunExits, Crash
<1> QED
  BY <1>1, <1>3, <1>4, <1>5, <1>6, <1>7, <1>8, <1>9, <1>10, <1>12, <1>13, <1>14, <1>15

(* Steps that read .meta, and infer it if need be.                         *)
LEMMA ReadInStep ==
  ASSUME Typed, NEW self \in Procs, InStep(meta, orch[self]),
         \/ Descend(self) \/ Reload(self) \/ Validate(self) \/ Load(self) \/ ConfirmLoad(self)
  PROVE  /\ InStep(meta', orch'[self])
         /\ Lifecycle!Infer \/ StatusOnDisk' = StatusOnDisk
<1> DEFINE f == orch[self]
<1>0. f \in Frame /\ FrameOK(f) /\ orch \in [Procs -> Frame]
  BY DEF Typed, FramesOK
<1>1. StoreInferred
  BY DEF Descend, Reload, Validate, Load, ConfirmLoad
<1>2. /\ Lifecycle!Infer \/ StatusOnDisk' = StatusOnDisk
      /\ meta' = LoadProgression /\ meta' # NoMeta /\ (meta # NoMeta => meta' = meta)
  BY <1>1, InferFollows
<1> SUFFICES InStep(meta', orch'[self])
  BY <1>2
<1>3. \A p : Unmet(LoadProgression, p) = {} => Checked(meta', p)
  BY <1>2 DEF Checked
<1>4. \A p : Checked(meta, p) => Checked(meta', p)
  BY <1>2 DEF Checked
<1>5. ASSUME Return(self) PROVE InStep(meta', orch'[self])
  <2>1. orch'[self] = Idle
    BY <1>0, <1>5 DEF Return
  <2> QED
    BY <2>1 DEF Idle, InStep
<1>6. CASE Descend(self)
  <2>1. f.op = "resume"
    BY <1>0, <1>6 DEF Descend, At, FrameOK
  <2>2. CASE Unmet(LoadProgression, f.cur) = {}
    <3>1. PICK pc \in {"reload", "validate"} :
             Goto(self, pc) /\ (pc = "validate" => f.cur = f.target)
      BY <1>6, <2>2 DEF Descend, NextFrame
    <3>2. /\ orch'[self].pc = pc /\ orch'[self].op = f.op /\ orch'[self].cur = f.cur
          /\ orch'[self].target = f.target
      BY <1>0, <3>1 DEF Goto, Frame
    <3> QED
      BY <1>3, <2>1, <2>2, <3>1, <3>2 DEF InStep
  <2>3. CASE Unmet(LoadProgression, f.cur) # {}
    <3>1. orch'[self].pc = "descend" /\ orch'[self].op = f.op
      BY <1>0, <1>6, <2>3 DEF Descend, At, Frame
    <3> QED
      BY <2>1, <3>1 DEF InStep
  <2> QED
    BY <2>2, <2>3
<1>7. CASE Reload(self)
  <2>1. /\ orch'[self].pc = "clearRead" /\ orch'[self].op = f.op /\ orch'[self].cur = f.cur
        /\ orch'[self].target = f.target
        /\ orch'[self].prog = LoadProgression
    BY <1>0, <1>7 DEF Reload, Frame
  <2>2. f.op = "resume" /\ Checked(meta, f.cur)
    BY <1>0, <1>7 DEF Reload, At, FrameOK, InStep
  <2> QED
    BY <1>2, <1>4, <2>1, <2>2 DEF InStep
<1>8. CASE Validate(self)
  <2>1. f.op # "assess" /\ f.cur = f.target
    BY <1>0, <1>8 DEF Validate, At, FrameOK, InStep
  <2>2. CASE Unmet(LoadProgression, f.cur) = {}
    <3>1. /\ orch'[self].pc = "clearRead" /\ orch'[self].op = f.op /\ orch'[self].cur = f.cur
          /\ orch'[self].target = f.target
          /\ orch'[self].prog = f.prog /\ orch'[self].target = f.target
      BY <1>0, <1>8, <2>2 DEF Validate, Frame
    <3> QED
      BY <1>3, <2>1, <2>2, <3>1 DEF InStep
  <2>3. CASE Unmet(LoadProgression, f.cur) # {}
    <3>1. Raise(self)
      BY <1>8, <2>3 DEF Validate
    <3>2. ASSUME f.op = "strict", Goto(self, "markRead") PROVE InStep(meta', orch'[self])
      <4>1. orch'[self].pc = "markRead" /\ orch'[self].op = "strict"
        BY <1>0, <3>2 DEF Goto, Frame
      <4> QED
        BY <4>1 DEF InStep
    <3> QED
      BY <1>5, <3>1, <3>2 DEF Raise
  <2> QED
    BY <2>2, <2>3
<1>9. CASE Load(self)
  <2>1. /\ orch'[self].pc = "begin" /\ orch'[self].op = f.op /\ orch'[self].cur = f.cur
        /\ orch'[self].target = f.target
        /\ orch'[self].prog = LoadProgression
    BY <1>0, <1>9 DEF Load, GotoWith, Frame
  <2>2. f.op # "assess" /\ Checked(meta, f.cur)
    BY <1>0, <1>9 DEF Load, At, FrameOK, InStep
  <2> QED
    BY <1>2, <1>4, <2>1, <2>2 DEF InStep
<1>10. CASE ConfirmLoad(self)
  <2>1. CASE LoadProgression["schema_design"].status = "awaiting_review"
    <3>1. /\ orch'[self].pc = "confirmSave" /\ orch'[self].op = f.op
          /\ orch'[self].target = f.target
          /\ orch'[self].prog = LoadProgression
      BY <1>0, <1>10, <2>1 DEF ConfirmLoad, GotoWith, Frame
    <3>2. f.op # "assess"
      BY <1>0, <1>10 DEF ConfirmLoad, At, FrameOK
    <3> QED
      BY <1>2, <2>1, <3>1, <3>2 DEF InStep
  <2> QED
    BY <1>5, <1>10, <2>1 DEF ConfirmLoad
<1> QED
  BY <1>6, <1>7, <1>8, <1>9, <1>10

(* A phase is begun.                                                       *)
LEMMA BeginInStep ==
  ASSUME Typed, NEW self \in Procs, InStep(meta, orch[self]), Begin(self)
  PROVE  InStep(meta', orch'[self]) /\ Lifecycle!Next
<1> DEFINE f == orch[self]
           new == SetPhaseStatus(f.prog, f.cur, "in_progress", "none")
<1>0. /\ f \in Frame /\ FrameOK(f) /\ orch \in [Procs -> Frame]
      /\ f.pc = "begin" /\ f.cur \in Phase
  BY DEF Typed, FramesOK, Frame, Begin, At
<1>1. meta' = new
  BY DEF Begin, SaveProgression
<1>2. /\ orch'[self].pc = "run" /\ orch'[self].op = f.op /\ orch'[self].cur = f.cur
      /\ orch'[self].target = f.target
      /\ orch'[self].prog = new
  BY <1>0 DEF Begin, GotoWith, Frame
<1>3. new[f.cur].status = "in_progress"
  BY <1>0 DEF SetPhaseStatus, Frame, Progression
<1>4. f.op # "assess"
  BY <1>0 DEF FrameOK
<1>5. InStep(meta', orch'[self])
  BY <1>1, <1>2, <1>3, <1>4 DEF InStep
<1>6. CASE f.cur = "collect_triage" /\ f.prog = NewProgression
  BY <1>1, <1>5, <1>6, StartFollows DEF Lifecycle!Next
<1>7. CASE Checked(meta, f.cur) /\ f.prog = meta
  <2>1. Lifecycle!Begin(f.cur)
    BY <1>0, <1>1, <1>7, BeginFollows DEF Frame
  <2> QED
    BY <1>0, <1>5, <2>1, SameContract DEF Lifecycle!Next
<1> QED
  BY <1>0, <1>6, <1>7 DEF InStep

(* A phase ends ...                                                        *)
LEMMA Ending ==
  ASSUME Typed, NEW self \in Procs, InStep(meta, orch[self]),
         orch[self].pc \in {"run", "fail", "finish"},
         NEW status \in {"completed", "failed", "awaiting_review", "skipped"},
         NEW skip \in SkipReason,
         status = "awaiting_review" => orch[self].cur \in FanOutPhases,
         status = "skipped" => orch[self].cur = "schema_design",
         status # "skipped" => skip = "none",
         SaveProgression(SetPhaseStatus(orch[self].prog, orch[self].cur, status, skip))
  PROVE  /\ Lifecycle!Next
         /\ meta' = SetPhaseStatus(orch[self].prog, orch[self].cur, status, skip)
         /\ meta' \in Progression /\ meta' # NoMeta /\ meta'[orch[self].cur].status = status
<1> DEFINE f == orch[self]
<1>0. /\ f.cur \in Phase /\ f.prog \in Progression
      /\ f.prog = meta /\ meta[f.cur].status = "in_progress"
  BY DEF Typed, FramesOK, Frame, InStep
<1>1. meta' = SetPhaseStatus(meta, f.cur, status, skip)
  BY <1>0 DEF SaveProgression
<1>2. Lifecycle!End(f.cur) /\ meta' \in Progression
  BY <1>0, <1>1, EndFollows
<1>3. meta'[f.cur].status = status
  BY <1>0, <1>1 DEF SetPhaseStatus, Progression
<1> QED
  BY <1>0, <1>1, <1>2, <1>3, SameContract, StoreAssumption DEF Lifecycle!Next

(* ... in a failure ...                                                    *)
LEMMA FailInStep ==
  ASSUME Typed, NEW self \in Procs, InStep(meta, orch[self]), Fail(self)
  PROVE  InStep(meta', orch'[self]) /\ Lifecycle!Next
<1> DEFINE f == orch[self]
<1>0. f \in Frame /\ orch \in [Procs -> Frame] /\ f.pc = "fail"
  BY DEF Typed, FramesOK, Fail, At
<1>1. Lifecycle!Next
  BY <1>0, Ending DEF Fail, SkipReason
<1>2. CASE Return(self)
  <2>1. orch'[self] = Idle
    BY <1>0, <1>2 DEF Return
  <2> QED
    BY <1>1, <2>1 DEF Idle, InStep
<1>3. CASE f.op = "strict" /\ Goto(self, "markRead")
  <2>1. orch'[self].pc = "markRead" /\ orch'[self].op = "strict"
    BY <1>0, <1>3 DEF Goto, Frame
  <2> QED
    BY <1>1, <2>1 DEF InStep
<1> QED
  BY <1>2, <1>3 DEF Fail, Raise

(* ... as a prerequisite that is done, so that the phase above it may run  *)
(* ...                                                                     *)
LEMMA FinishPrerequisiteInStep ==
  ASSUME Typed, NEW self \in Procs, InStep(meta, orch[self]), FinishPrerequisite(self)
  PROVE  InStep(meta', orch'[self]) /\ Lifecycle!Next
<1> DEFINE f == orch[self]
           up == Above(f.cur, f.target)
<1>0. /\ f \in Frame /\ FrameOK(f) /\ orch \in [Procs -> Frame] /\ f.pc = "finish"
      /\ f.op = "resume" /\ f.cur # f.target /\ f.cur \in Phase /\ f.target \in Phase
  BY DEF Typed, FramesOK, FinishPrerequisite, At, Nested, Frame
<1>1. /\ up \in Phase /\ Prerequisites(up) = {f.cur}
      /\ up # f.target => f.cur # "schema_design"
  BY <1>0, AboveIsNext DEF FrameOK
<1>2. /\ orch'[self].pc = NextFrame(up, f.target) /\ orch'[self].op = "resume"
      /\ orch'[self].cur = up /\ orch'[self].target = f.target
  BY <1>0 DEF FinishPrerequisite, Frame
<1>3. CASE Skips(f.cur)
  <2>1. f.cur = "schema_design"
    BY <1>3 DEF Skips
  <2>2. SaveProgression(SetPhaseStatus(f.prog, f.cur, "skipped", "no_llm"))
    BY <1>3 DEF FinishPrerequisite
  <2>3. Lifecycle!Next
    BY <1>0, <2>1, <2>2, Ending DEF SkipReason
  <2>4. up = f.target
    BY <1>1, <2>1
  <2>5. orch'[self].pc = "validate"
    BY <1>2, <2>4 DEF NextFrame
  <2> QED
    BY <1>2, <2>3, <2>4, <2>5 DEF InStep
<1>4. CASE ~Skips(f.cur)
  <2>1. SaveProgression(SetPhaseStatus(f.prog, f.cur, "completed", "none"))
    BY <1>4 DEF FinishPrerequisite
  <2>2. /\ Lifecycle!Next
        /\ meta' # NoMeta /\ meta'[f.cur].status = "completed"
    BY <1>0, <2>1, Ending DEF SkipReason
  <2>3. Checked(meta', up)
    BY <1>1, <2>2 DEF Checked, Unmet, PrerequisiteMet
  <2>4. \/ orch'[self].pc = "validate" /\ up = f.target
        \/ orch'[self].pc = "reload"
    BY <1>2 DEF NextFrame
  <2> QED
    BY <1>2, <2>2, <2>3, <2>4 DEF InStep
<1> QED
  BY <1>3, <1>4

(* ... as the requested phase ...                                          *)
LEMMA FinishResumeInStep ==
  ASSUME Typed, NEW self \in Procs, InStep(meta, orch[self]), FinishResume(self)
  PROVE  InStep(meta', orch'[self]) /\ Lifecycle!Next
<1> DEFINE f == orch[self]
<1>0. /\ f \in Frame /\ FrameOK(f) /\ orch \in [Procs -> Frame] /\ f.pc = "finish"
      /\ f.cur \in Phase
  BY DEF Typed, FramesOK, FinishResume, At, Frame
<1>1. PICK status, skip :
        /\ SaveProgression(SetPhaseStatus(f.prog, f.cur, status, skip))
        /\ \/ Skips(f.cur) /\ status = "skipped" /\ skip = "no_llm"
           \/ ~Skips(f.cur) /\ skip = "none"
              /\ status = IF f.cur \in FanOutPhases THEN "awaiting_review" ELSE "completed"
  BY DEF FinishResume
<1>2. Skips(f.cur) => f.cur = "schema_design"
  BY DEF Skips
<1>3. /\ Lifecycle!Next
      /\ meta' # NoMeta /\ meta'[f.cur].status = status
  <2>1. /\ status \in {"completed", "failed", "awaiting_review", "skipped"}
        /\ skip \in SkipReason
        /\ status = "awaiting_review" => f.cur \in FanOutPhases
        /\ status = "skipped" => f.cur = "schema_design"
        /\ status # "skipped" => skip = "none"
    BY <1>1, <1>2 DEF SkipReason
  <2> QED
    BY <1>0, <1>1, <2>1, Ending
<1>4. CASE Return(self)
  <2>1. orch'[self] = Idle
    BY <1>0, <1>4 DEF Return
  <2> QED
    BY <1>3, <2>1 DEF Idle, InStep
<1>5. CASE f.op = "strict" /\ f.cur = "schema_design" /\ Goto(self, "assessed")
  <2>1. orch'[self].pc = "assessed" /\ orch'[self].op = "strict"
    BY <1>0, <1>5 DEF Goto, Frame
  <2>2. status \in {"awaiting_review", "skipped"}
    BY <1>1, <1>5 DEF FanOutPhases
  <2>3. Designed(meta')
    BY <1>3, <1>5, <2>2 DEF Designed
  <2> QED
    BY <1>3, <2>1, <2>3 DEF InStep
<1> QED
  BY <1>4, <1>5 DEF FinishResume

(* ... or in start_job.                                                    *)
LEMMA FinishStartInStep ==
  ASSUME Typed, NEW self \in Procs, InStep(meta, orch[self]), FinishStart(self)
  PROVE  InStep(meta', orch'[self]) /\ Lifecycle!Next
<1> DEFINE f == orch[self]
<1>0. /\ f \in Frame /\ FrameOK(f) /\ orch \in [Procs -> Frame] /\ f.pc = "finish"
      /\ f.op = "start" /\ f.cur \in Phase /\ f.target = "analysis"
  BY DEF Typed, FramesOK, FinishStart, At, Frame, InStep
<1>1. CASE f.cur # f.target
  <2>1. f.cur = "collect_triage"
    BY <1>0, <1>1 DEF FrameOK, Rank, Phase
  <2>2. SaveProgression(SetPhaseStatus(f.prog, f.cur, "completed", "none"))
    BY <1>1, <2>1 DEF FinishStart, Nested
  <2>3. /\ Lifecycle!Next
        /\ meta' = SetPhaseStatus(f.prog, f.cur, "completed", "none")
        /\ meta' # NoMeta /\ meta'[f.cur].status = "completed"
    BY <1>0, <2>2, Ending DEF SkipReason
  <2>4. Checked(meta', "analysis")
    BY <2>1, <2>3 DEF Checked, Unmet, PrerequisiteMet, Prerequisites
  <2>5. /\ orch'[self].pc = "begin" /\ orch'[self].op = "start" /\ orch'[self].cur = "analysis"
        /\ orch'[self].target = "analysis"
        /\ orch'[self].prog = SetPhaseStatus(f.prog, "collect_triage", "completed", "none")
    BY <1>0, <1>1 DEF FinishStart, Nested, Frame
  <2> QED
    BY <2>1, <2>3, <2>4, <2>5 DEF InStep
<1>2. CASE f.cur = f.target
  <2>1. /\ SaveProgression(SetPhaseStatus(f.prog, f.cur, "awaiting_review", "none"))
        /\ orch'[self] = Idle
    BY <1>0, <1>2 DEF FinishStart, Nested, Return
  <2>2. Lifecycle!Next
    BY <1>0, <1>2, <2>1, Ending DEF SkipReason, FanOutPhases
  <2> QED
    BY <2>1, <2>2 DEF Idle, InStep
<1> QED
  BY <1>1, <1>2

(* A review that is recorded, or confirmed.                                *)
LEMMA AdoptInStep ==
  ASSUME Typed, NEW self \in Procs, InStep(meta, orch[self]), AdoptAssessed(self)
  PROVE  InStep(meta', orch'[self]) /\ (Lifecycle!Next \/ StatusOnDisk' = StatusOnDisk)
<1> DEFINE f == orch[self]
<1>0. /\ f \in Frame /\ FrameOK(f) /\ orch \in [Procs -> Frame] /\ f.pc = "force"
      /\ f.op = "assess" /\ f.cur = f.target /\ f.cur \in {"schema_design", "synthesis"}
  BY DEF Typed, FramesOK, AdoptAssessed, At, FrameOK
<1>1. /\ f.prog = (IF meta = NoMeta THEN NewProgression ELSE meta)
      /\ f.target = "synthesis" => Designed(meta)
  BY <1>0 DEF InStep
<1>2. meta' = Forced(f.prog, f.target)
  BY DEF AdoptAssessed, SaveProgression
<1>3. f.prog \in Progression
  BY <1>0 DEF Frame
<1>4. Lifecycle!AdoptReview \/ Lifecycle!Confirm \/ StatusOnDisk' = StatusOnDisk
  BY <1>0, <1>1, <1>2, <1>3, AdoptFollows
<1>5. /\ orch'[self].pc = "validate" /\ orch'[self].op = "strict"
      /\ orch'[self].cur = f.cur /\ orch'[self].target = f.target
  BY <1>0 DEF AdoptAssessed, Frame
<1> QED
  BY <1>0, <1>4, <1>5 DEF InStep, Lifecycle!Next

(* A schema design is confirmed.                                           *)
LEMMA ConfirmInStep ==
  ASSUME Typed, NEW self \in Procs, InStep(meta, orch[self]), ConfirmSave(self)
  PROVE  InStep(meta', orch'[self]) /\ Lifecycle!Next
<1>0. /\ orch[self] \in Frame /\ orch \in [Procs -> Frame]
  BY DEF Typed, FramesOK
<1>1. /\ orch[self].prog = meta /\ meta["schema_design"].status = "awaiting_review"
      /\ meta \in Progression
  BY <1>0 DEF ConfirmSave, At, InStep, Frame
<1>2. meta' = SetPhaseStatus(meta, "schema_design", "completed", "none")
  BY <1>1 DEF ConfirmSave, SaveProgression
<1>3. orch'[self] = Idle
  BY <1>0 DEF ConfirmSave, Return
<1>4. Lifecycle!Confirm
  BY <1>1, <1>2, ConfirmFollows
<1> QED
  BY <1>3, <1>4 DEF Idle, InStep, Lifecycle!Next

(* Every step of the one process is one of the phases' lives.              *)
LEMMA InStepStep ==
  ASSUME OneProcess, Typed, AllInStep, NEW self \in Procs, Step(self)
  PROVE  AllInStep' /\ (Lifecycle!Next \/ StatusOnDisk' = StatusOnDisk)
<1>0. InStep(meta, orch[self])
  BY DEF AllInStep
<1>1. InStep(meta', orch'[self]) /\ (Lifecycle!Next \/ StatusOnDisk' = StatusOnDisk)
  <2>1. CASE \/ ResumePhase(self) \/ ConfirmAll(self) \/ StartJob(self)
             \/ AssessSchemaDesign(self) \/ AssessSynthesis(self) \/ RoutingRaises(self)
             \/ GetProgression(self) \/ MarkRead(self) \/ MarkWrite(self)
             \/ ClearRead(self) \/ ClearWrite(self)
             \/ RunReturns(self) \/ RunRaises(self) \/ RunExits(self) \/ Crash(self)
    <3>1. InStep(meta', orch'[self]) /\ meta' = meta
      BY <1>0, <2>1, QuietInStep
    <3> QED
      BY <3>1 DEF StatusOnDisk
  <2>2. CASE Descend(self) \/ Reload(self) \/ Validate(self) \/ Load(self) \/ ConfirmLoad(self)
    <3>1. InStep(meta', orch'[self]) /\ (Lifecycle!Infer \/ StatusOnDisk' = StatusOnDisk)
      BY <1>0, <2>2, ReadInStep
    <3> QED
      BY <3>1 DEF Lifecycle!Next
  <2>3. CASE Begin(self) \/ Fail(self) \/ FinishPrerequisite(self)
    BY <1>0, <2>3, BeginInStep, FailInStep, FinishPrerequisiteInStep
  <2>4. CASE FinishResume(self) \/ FinishStart(self)
    BY <1>0, <2>4, FinishResumeInStep, FinishStartInStep
  <2>5. CASE AdoptAssessed(self) \/ ConfirmSave(self)
    BY <1>0, <2>5, AdoptInStep, ConfirmInStep
  <2> QED
    BY <2>1, <2>2, <2>3, <2>4, <2>5 DEF Step, Advance
<1>2. \A other \in Procs : other = self
  BY DEF OneProcess
<1> QED
  BY <1>1, <1>2 DEF AllInStep

(***************************************************************************)
(* Calls that do not overlap, each ending, failing, exiting or killed      *)
(* anywhere, take the phases of a job through their lives: the             *)
(* orchestrators implement PhaseLifecycle.                                 *)
(***************************************************************************)
THEOREM PhasesKeepLifecycle ==
  ASSUME OneProcess
  PROVE  Spec => LifecycleSpec
<1>1. Init => Typed /\ AllInStep /\ Lifecycle!Init
  <2>1. ASSUME Init PROVE AllInStep
    BY <2>1 DEF Init, AllInStep, Idle, InStep
  <2>2. ASSUME Init PROVE Lifecycle!Init
    BY <2>2, SameContract DEF Init, Lifecycle!Init, Lifecycle!NotStarted, StatusOnDisk
  <2> QED
    BY <2>1, <2>2, TypedInit
<1>2. Typed /\ AllInStep /\ [Next]_vars
        => Typed' /\ AllInStep' /\ [Lifecycle!Next]_StatusOnDisk
  <2>1. ASSUME Typed, AllInStep, Next
        PROVE  Typed' /\ AllInStep' /\ [Lifecycle!Next]_StatusOnDisk
    BY <2>1, TypedStep, InStepStep DEF Next
  <2>2. ASSUME Typed, AllInStep, UNCHANGED vars
        PROVE  Typed' /\ AllInStep' /\ StatusOnDisk' = StatusOnDisk
    BY <2>2 DEF vars, storeVars, orchVars, Typed, FilesOK, FramesOK, StoreTypeOK,
                AllInStep, StatusOnDisk
  <2> QED
    BY <2>1, <2>2
<1> QED
  BY <1>1, <1>2, PTL DEF Spec, LifecycleSpec, Lifecycle!Spec
=============================================================================
