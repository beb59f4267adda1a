-------------------------- MODULE PhaseScriptsProofs --------------------------
(***************************************************************************)
(* What holds of the scripts for any number of processes, engines and      *)
(* invocations, with kills or without: types; no trace of a job that does  *)
(* not exist; a FAILED marker that still stands; and the review gate       *)
(* recorded by whoever works past it.                                      *)
(***************************************************************************)
EXTENDS PhaseScripts, TLAPS

Busy(self) == ~InScript(self, "idle")

(* An invocation runs one of the scripts, for an engine the script takes,  *)
(* and is where that script can be.                                        *)
ScriptFrameOK(self) ==
    Busy(self) =>
        /\ script[self].kind \in Kinds
        /\ script[self].engine \in EnginesOf(script[self].kind)
        /\ script[self].pc \in {"resolve", "reviewRead", "reviewWrite"} =>
              PastTheGate(script[self].kind)
        /\ script[self].pc \in {"clearRead", "clearWrite"} => ClearsOwnMarker(script[self].kind)

ScriptsTyped == ScriptTypeOK /\ \A self \in ScriptProcs : ScriptFrameOK(self)

-----------------------------------------------------------------------------
(***************************************************************************)
(* Types                                                                   *)
(***************************************************************************)

(* The phase and engine of an invocation name an attempt.                  *)
LEMMA AttemptType ==
  ASSUME script \in [ScriptProcs -> ScriptFrame], NEW self \in ScriptProcs
  PROVE  AttemptOf(self) \in Attempt
<1>1. script[self].kind \in ScriptKind /\ script[self].engine \in Engines \cup {NoEngine}
  BY DEF ScriptFrame
<1>2. PhaseOf(script[self].kind) \in ScriptPhase
  BY <1>1 DEF ScriptKind, PhaseOf, ScriptPhase, Phase
<1> QED
  BY <1>1, <1>2 DEF AttemptOf, Attempt

(* What an invocation keeps when it goes on: script, engine, the attempt.  *)
KeepsAttempt(self) ==
    /\ script'[self].kind = script[self].kind
    /\ script'[self].engine = script[self].engine
    /\ AttemptOf(self)' = AttemptOf(self)

OthersStay(self) ==
    \A other \in ScriptProcs \ {self} :
        script'[other] = script[other] /\ AttemptOf(other)' = AttemptOf(other)

(* A frame replaced by another is still a frame, the others are untouched. *)
LEMMA FrameSet ==
  ASSUME script \in [ScriptProcs -> ScriptFrame], NEW self \in ScriptProcs,
         NEW f \in ScriptFrame, script' = [script EXCEPT ![self] = f]
  PROVE  script' \in [ScriptProcs -> ScriptFrame] /\ script'[self] = f /\ OthersStay(self)
<1>1. script' \in [ScriptProcs -> ScriptFrame] /\ script'[self] = f
  OBVIOUS
<1>2. ASSUME NEW other \in ScriptProcs \ {self}
      PROVE  script'[other] = script[other]
  OBVIOUS
<1> QED
  BY <1>1, <1>2 DEF OthersStay, AttemptOf

(* ScriptGoto changes where an invocation is, and nothing else.            *)
LEMMA GotoFacts ==
  ASSUME script \in [ScriptProcs -> ScriptFrame], NEW self \in ScriptProcs,
         NEW pc \in ScriptPc, ScriptGoto(self, pc)
  PROVE  /\ script' \in [ScriptProcs -> ScriptFrame]
         /\ script'[self].pc = pc /\ script'[self].seen = script[self].seen
         /\ KeepsAttempt(self) /\ OthersStay(self)
<1> DEFINE f == [script[self] EXCEPT !.pc = pc]
<1>1. f \in ScriptFrame /\ f.pc = pc /\ f.kind = script[self].kind
      /\ f.engine = script[self].engine /\ f.seen = script[self].seen
  BY DEF ScriptFrame
<1>2. script' = [script EXCEPT ![self] = f]
  BY DEF ScriptGoto
<1> HIDE DEF f
<1>3. script' \in [ScriptProcs -> ScriptFrame] /\ script'[self] = f /\ OthersStay(self)
  BY <1>1, <1>2, FrameSet
<1> QED
  BY <1>1, <1>3 DEF KeepsAttempt, AttemptOf

(* ScriptEnd leaves the process idle.                                      *)
LEMMA EndFacts ==
  ASSUME StoreAssumption, script \in [ScriptProcs -> ScriptFrame], NEW self \in ScriptProcs,
         ScriptEnd(self)
  PROVE  /\ script' \in [ScriptProcs -> ScriptFrame]
         /\ script'[self].pc = "idle" /\ OthersStay(self)
<1>1. ScriptIdle \in ScriptFrame /\ ScriptIdle.pc = "idle"
  BY DEF ScriptIdle, ScriptFrame, ScriptPc, ScriptKind
<1> QED
  BY <1>1, FrameSet DEF ScriptEnd

(* Recording how an attempt goes changes that attempt alone.               *)
LEMMA RecordFacts ==
  ASSUME script \in [ScriptProcs -> ScriptFrame], last \in [Attempt -> Outcome],
         NEW self \in ScriptProcs, NEW outcome \in Outcome, Record(self, outcome)
  PROVE  /\ last' \in [Attempt -> Outcome] /\ last'[AttemptOf(self)] = outcome
         /\ \A a \in Attempt \ {AttemptOf(self)} : last'[a] = last[a]
BY AttemptType DEF Record

(* Going on to the work opens the attempt; going on to the gate does not.  *)
LEMMA GoOnFacts ==
  ASSUME ScriptTypeOK, NEW self \in ScriptProcs, NEW pc \in {"reviewRead", "work"},
         GoOn(self, pc)
  PROVE  /\ script' \in [ScriptProcs -> ScriptFrame]
         /\ script'[self].pc = pc /\ KeepsAttempt(self) /\ OthersStay(self)
         /\ last' \in [Attempt -> Outcome]
         /\ \A a \in Attempt \ {AttemptOf(self)} : last'[a] = last[a]
         /\ IF pc = "work" THEN last'[AttemptOf(self)] = "running" ELSE last' = last
<1>1. script \in [ScriptProcs -> ScriptFrame] /\ last \in [Attempt -> Outcome]
  BY DEF ScriptTypeOK
<1>2. pc \in ScriptPc /\ ScriptGoto(self, pc) /\ "running" \in Outcome
  BY DEF GoOn, ScriptPc, Outcome
<1>3. /\ script' \in [ScriptProcs -> ScriptFrame]
      /\ script'[self].pc = pc /\ KeepsAttempt(self) /\ OthersStay(self)
  BY <1>1, <1>2, GotoFacts
<1>4. CASE pc = "work"
  <2>1. Record(self, "running")
    BY <1>4 DEF GoOn
  <2> QED
    BY <1>1, <1>2, <1>3, <1>4, <2>1, RecordFacts
<1>5. CASE pc # "work"
  BY <1>1, <1>3, <1>5 DEF GoOn
<1> QED
  BY <1>4, <1>5

(* Where clear_failure_marker is followed by the gate or the work.         *)
LEMMA AfterClearIs ==
  ASSUME NEW kind
  PROVE  /\ AfterClear(kind) \in {"reviewRead", "work"}
         /\ AfterClear(kind) = "reviewRead" => PastTheGate(kind)
BY DEF AfterClear

(* A step of one invocation that leaves the files' types alone, and its    *)
(* own frame where its script can be, keeps the types.                     *)
LEMMA StepKeepsTypes ==
  ASSUME ScriptsTyped, NEW self \in ScriptProcs,
         script' \in [ScriptProcs -> ScriptFrame], OthersStay(self),
         last' \in [Attempt -> Outcome], runs' \in Nat, StoreTypeOK', ScriptFrameOK(self)'
  PROVE  ScriptsTyped'
<1>1. ASSUME NEW other \in ScriptProcs \ {self}
      PROVE  ScriptFrameOK(other)'
  BY DEF OthersStay, ScriptsTyped, ScriptFrameOK, Busy, InScript
<1> QED
  BY <1>1 DEF ScriptsTyped, ScriptTypeOK

(* Types hold to begin with.                                               *)
LEMMA ScriptsTypedInit ==
  ASSUME StoreAssumption, ScriptsAloneInit
  PROVE  ScriptsTyped
<1>1. InferProgression \in Progression
  BY DEF InferProgression, Progression, PhaseRecord, PhaseStatus, SkipReason
<1>2. PlainMarker("ABSENT") \in Marker
  BY DEF PlainMarker, Marker, MarkerStatus
<1>3. StoreTypeOK
  BY <1>1, <1>2 DEF ScriptsAloneInit, ScriptStoreInit, StoreTypeOK, Artifact
<1>4. ScriptIdle \in ScriptFrame /\ ScriptIdle.pc = "idle"
  BY DEF ScriptIdle, ScriptFrame, ScriptPc, ScriptKind
<1>5. /\ script \in [ScriptProcs -> ScriptFrame] /\ \A self \in ScriptProcs : script[self].pc = "idle"
      /\ runs \in Nat /\ last \in [Attempt -> Outcome]
  BY <1>4 DEF ScriptsAloneInit, ScriptInit, Outcome
<1> QED
  BY <1>3, <1>5 DEF ScriptsTyped, ScriptTypeOK, ScriptFrameOK, Busy, InScript

(* Every step keeps them.                                                  *)
LEMMA ScriptStepKeepsTypes ==
  ASSUME StoreAssumption, ScriptAssumption, ScriptsTyped, NEW self \in ScriptProcs, ScriptStep(self)
  PROVE  ScriptsTyped'
<1>1. /\ script \in [ScriptProcs -> ScriptFrame] /\ last \in [Attempt -> Outcome] /\ runs \in Nat
      /\ StoreTypeOK /\ ScriptFrameOK(self)
  BY DEF ScriptsTyped, ScriptTypeOK
<1>2. {"resolve", "clearRead", "clearWrite", "reviewRead", "reviewWrite", "work", "markRead",
       "markWrite"} \subseteq ScriptPc /\ {"running", "ok", "failed"} \subseteq Outcome
  BY DEF ScriptPc, Outcome
<1>3. ASSUME storeVars' = storeVars
      PROVE  StoreTypeOK'
  BY <1>1, <1>3 DEF storeVars, StoreTypeOK
<1>4. ASSUME script'[self].pc = "idle"
      PROVE  ScriptFrameOK(self)'
  BY <1>4 DEF ScriptFrameOK, Busy, InScript
<1>5. ASSUME KeepsAttempt(self), script'[self].pc \in {"work", "markRead", "markWrite"},
             ~InScript(self, "idle")
      PROVE  ScriptFrameOK(self)'
  BY <1>1, <1>5 DEF KeepsAttempt, ScriptFrameOK, Busy, InScript
<1>6. CASE StartScript(self)
  <2> DEFINE f(kind, e) ==
                [pc |-> IF PastTheGate(kind) THEN "resolve"
                        ELSE IF ClearsOwnMarker(kind) THEN "clearRead" ELSE "work",
                 kind |-> kind, engine |-> e, seen |-> NoMeta]
             Starts(kind, e) ==
                /\ script' = [script EXCEPT ![self] = f(kind, e)]
                /\ IF ClearsOwnMarker(kind) THEN UNCHANGED last
                   ELSE last' = [last EXCEPT ![<<PhaseOf(kind), e>>] = "running"]
  <2>0. PICK kind \in Kinds : \E e \in EnginesOf(kind) : Starts(kind, e)
    BY <1>6 DEF StartScript
  <2>1. PICK e \in EnginesOf(kind) : Starts(kind, e)
    BY <2>0
  <2>2. kind \in ScriptKind /\ e \in Engines \cup {NoEngine}
    BY DEF ScriptAssumption, EnginesOf
  <2>3. f(kind, e) \in ScriptFrame
    BY <1>2, <2>2 DEF ScriptFrame
  <2>4. /\ f(kind, e).kind = kind /\ f(kind, e).engine = e
        /\ f(kind, e).pc = IF PastTheGate(kind) THEN "resolve"
                  ELSE IF ClearsOwnMarker(kind) THEN "clearRead" ELSE "work"
    OBVIOUS
  <2> HIDE DEF f
  <2>5. script' \in [ScriptProcs -> ScriptFrame] /\ script'[self] = f(kind, e)
        /\ OthersStay(self)
    BY <1>1, <2>1, <2>3, FrameSet
  <2>6. ScriptFrameOK(self)'
    BY <2>4, <2>5 DEF ScriptFrameOK, Busy, InScript
  <2>7. last' \in [Attempt -> Outcome] /\ runs' \in Nat /\ storeVars' = storeVars
    BY <1>1, <1>2, <1>6, <2>1 DEF StartScript
  <2> QED
    BY <1>3, <2>5, <2>6, <2>7, StepKeepsTypes
<1>7. CASE Resolve(self)
  <2>1. /\ script' \in [ScriptProcs -> ScriptFrame] /\ script'[self].pc = "clearRead"
        /\ KeepsAttempt(self) /\ OthersStay(self)
    BY <1>1, <1>2, <1>7, GotoFacts DEF Resolve
  <2>2. ScriptFrameOK(self)'
    BY <1>1, <1>7, <2>1
       DEF Resolve, KeepsAttempt, ScriptFrameOK, Busy, InScript, PastTheGate, ClearsOwnMarker
  <2> QED
    BY <1>1, <1>3, <1>7, <2>1, <2>2, StepKeepsTypes DEF Resolve
<1>8. CASE ResolveRaises(self)
  <2>1. script' \in [ScriptProcs -> ScriptFrame] /\ script'[self].pc = "idle" /\ OthersStay(self)
    BY <1>1, <1>8, EndFacts DEF ResolveRaises
  <2>2. last' \in [Attempt -> Outcome]
    BY <1>1, <1>2, <1>8, RecordFacts DEF ResolveRaises
  <2> QED
    BY <1>1, <1>3, <1>4, <1>8, <2>1, <2>2, StepKeepsTypes DEF ResolveRaises
<1>9. ASSUME InScript(self, "clearRead") \/ InScript(self, "clearWrite"),
             GoOn(self, AfterClear(script[self].kind)), StoreTypeOK', runs' = runs
      PROVE  ScriptsTyped'
  <2> DEFINE pc == AfterClear(script[self].kind)
  <2>1. pc \in {"reviewRead", "work"} /\ (pc = "reviewRead" => PastTheGate(script[self].kind))
    BY AfterClearIs
  <2> HIDE DEF pc
  <2>2. /\ script' \in [ScriptProcs -> ScriptFrame] /\ script'[self].pc = pc
        /\ KeepsAttempt(self) /\ OthersStay(self) /\ last' \in [Attempt -> Outcome]
    BY <1>9, <2>1, GoOnFacts DEF pc, ScriptsTyped
  <2>3. ScriptFrameOK(self)'
    BY <1>1, <1>9, <2>1, <2>2 DEF KeepsAttempt, ScriptFrameOK, Busy, InScript
  <2> QED
    BY <1>1, <1>9, <2>2, <2>3, StepKeepsTypes
<1>10. CASE ScriptClearRead(self)
  <2>1. CASE ScriptGoto(self, "clearWrite") /\ UNCHANGED last
    <3>1. /\ script' \in [ScriptProcs -> ScriptFrame] /\ script'[self].pc = "clearWrite"
          /\ KeepsAttempt(self) /\ OthersStay(self)
      BY <1>1, <1>2, <2>1, GotoFacts
    <3>2. ScriptFrameOK(self)'
      BY <1>1, <1>10, <3>1 DEF ScriptClearRead, KeepsAttempt, ScriptFrameOK, Busy, InScript
    <3> QED
      BY <1>1, <1>3, <1>10, <2>1, <3>1, <3>2, StepKeepsTypes DEF ScriptClearRead
  <2>2. CASE GoOn(self, AfterClear(script[self].kind))
    BY <1>3, <1>9, <1>10, <2>2 DEF ScriptClearRead
  <2> QED
    BY <1>10, <2>1, <2>2 DEF ScriptClearRead
<1>11. CASE ScriptClearWrite(self)
  <2>1. PlainMarker("SUPERSEDED") \in Marker
    BY DEF PlainMarker, Marker, MarkerStatus
  <2>2. StoreTypeOK'
    BY <1>1, <1>11, <2>1 DEF ScriptClearWrite, StoreTypeOK
  <2> QED
    BY <1>9, <1>11, <2>2 DEF ScriptClearWrite
<1>12. CASE ReviewRead(self)
  <2>1. CASE /\ script' = [script EXCEPT ![self].pc = "reviewWrite", ![self].seen = meta]
             /\ UNCHANGED last
    <3> DEFINE f == [script[self] EXCEPT !.pc = "reviewWrite", !.seen = meta]
    <3>1. /\ f \in ScriptFrame /\ f.pc = "reviewWrite" /\ f.kind = script[self].kind
          /\ f.engine = script[self].engine
      BY <1>1, <1>2 DEF ScriptFrame, StoreTypeOK
    <3>2. script' = [script EXCEPT ![self] = f]
      BY <2>1
    <3> HIDE DEF f
    <3>3. script' \in [ScriptProcs -> ScriptFrame] /\ script'[self] = f /\ OthersStay(self)
      BY <1>1, <3>1, <3>2, FrameSet
    <3>4. ScriptFrameOK(self)'
      BY <1>1, <1>12, <3>1, <3>3 DEF ReviewRead, ScriptFrameOK, Busy, InScript
    <3> QED
      BY <1>1, <1>3, <1>12, <2>1, <3>3, <3>4, StepKeepsTypes DEF ReviewRead
  <2>2. CASE GoOn(self, "work")
    <3>1. /\ script' \in [ScriptProcs -> ScriptFrame] /\ script'[self].pc = "work"
          /\ KeepsAttempt(self) /\ OthersStay(self) /\ last' \in [Attempt -> Outcome]
      BY <2>2, GoOnFacts DEF ScriptsTyped
    <3>2. ScriptFrameOK(self)'
      BY <1>5, <1>12, <3>1 DEF ReviewRead, InScript
    <3> QED
      BY <1>1, <1>3, <1>12, <3>1, <3>2, StepKeepsTypes DEF ReviewRead
  <2> QED
    BY <1>12, <2>1, <2>2 DEF ReviewRead
<1>13. CASE ReviewWrite(self)
  <2> DEFINE f == [script[self] EXCEPT !.pc = "work", !.seen = NoMeta]
             seen == script[self].seen
  <2>1. /\ f \in ScriptFrame /\ f.pc = "work" /\ f.kind = script[self].kind
        /\ f.engine = script[self].engine
    BY <1>1, <1>2 DEF ScriptFrame
  <2>2. script' = [script EXCEPT ![self] = f]
    BY <1>13 DEF ReviewWrite
  <2>3. seen \in Progression \cup {NoMeta}
    BY <1>1 DEF ScriptFrame
  <2> HIDE DEF f
  <2>4. script' \in [ScriptProcs -> ScriptFrame] /\ script'[self] = f /\ OthersStay(self)
    BY <1>1, <2>1, <2>2, FrameSet
  <2>5. KeepsAttempt(self)
    BY <2>1, <2>4 DEF KeepsAttempt, AttemptOf
  <2>6. last' \in [Attempt -> Outcome]
    BY <1>1, <1>2, <1>13, RecordFacts DEF ReviewWrite
  <2>7. ASSUME seen \in Progression
        PROVE  [seen EXCEPT !["assignment_review"].status = "completed"] \in Progression
    BY <2>7 DEF Progression, PhaseRecord, PhaseStatus, Phase
  <2>8. StoreTypeOK'
    <3>1. meta' \in Progression \cup {NoMeta} /\ review' \in BOOLEAN
      BY <1>1, <1>13, <2>3, <2>7 DEF ReviewWrite, StoreTypeOK
    <3> QED
      BY <1>1, <1>13, <3>1 DEF ReviewWrite, StoreTypeOK
  <2>9. ScriptFrameOK(self)'
    BY <1>5, <1>13, <2>1, <2>4, <2>5 DEF ReviewWrite, InScript
  <2> QED
    BY <1>1, <1>13, <2>4, <2>6, <2>8, <2>9, StepKeepsTypes DEF ReviewWrite
<1>14. CASE WorkSucceeds(self)
  <2>1. script' \in [ScriptProcs -> ScriptFrame] /\ script'[self].pc = "idle" /\ OthersStay(self)
    BY <1>1, <1>14, EndFacts DEF WorkSucceeds
  <2>2. last' \in [Attempt -> Outcome]
    BY <1>1, <1>2, <1>14, RecordFacts DEF WorkSucceeds
  <2>3. Produces(script[self].kind) \subseteq Artifact
    <3>1. script[self].kind \in ScriptKind
      BY <1>1 DEF ScriptFrame
    <3> QED
      BY <3>1 DEF ScriptKind, Produces, Artifact
  <2>4. StoreTypeOK'
    BY <1>1, <1>14, <2>3 DEF WorkSucceeds, StoreTypeOK
  <2> QED
    BY <1>1, <1>4, <1>14, <2>1, <2>2, <2>4, StepKeepsTypes DEF WorkSucceeds
<1>15. CASE WorkFails(self)
  <2>1. /\ script' \in [ScriptProcs -> ScriptFrame] /\ script'[self].pc = "markRead"
        /\ KeepsAttempt(self) /\ OthersStay(self)
    BY <1>1, <1>2, <1>15, GotoFacts DEF WorkFails
  <2>2. last' \in [Attempt -> Outcome]
    BY <1>1, <1>2, <1>15, RecordFacts DEF WorkFails
  <2>3. ScriptFrameOK(self)'
    BY <1>5, <1>15, <2>1 DEF WorkFails, InScript
  <2> QED
    BY <1>1, <1>3, <1>15, <2>1, <2>2, <2>3, StepKeepsTypes DEF WorkFails
<1>16. CASE MarkFailureRead(self)
  <2>1. CASE ScriptGoto(self, "markWrite")
    <3>1. /\ script' \in [ScriptProcs -> ScriptFrame] /\ script'[self].pc = "markWrite"
          /\ KeepsAttempt(self) /\ OthersStay(self)
      BY <1>1, <1>2, <2>1, GotoFacts
    <3>2. ScriptFrameOK(self)'
      BY <1>5, <1>16, <3>1 DEF MarkFailureRead, InScript
    <3> QED
      BY <1>1, <1>3, <1>16, <3>1, <3>2, StepKeepsTypes DEF MarkFailureRead
  <2>2. CASE ScriptEnd(self)
    <3>1. script' \in [ScriptProcs -> ScriptFrame] /\ script'[self].pc = "idle" /\ OthersStay(self)
      BY <1>1, <2>2, EndFacts
    <3> QED
      BY <1>1, <1>3, <1>4, <1>16, <3>1, StepKeepsTypes DEF MarkFailureRead
  <2> QED
    BY <1>16, <2>1, <2>2 DEF MarkFailureRead
<1>17. CASE MarkFailureWrite(self)
  <2>1. script' \in [ScriptProcs -> ScriptFrame] /\ script'[self].pc = "idle" /\ OthersStay(self)
    BY <1>1, <1>17, EndFacts DEF MarkFailureWrite
  <2>2. FailureMarker(PhaseOf(script[self].kind), script[self].engine) \in Marker
    <3>1. script[self].kind \in ScriptKind /\ script[self].engine \in Engines \cup {NoEngine}
      BY <1>1 DEF ScriptFrame
    <3>2. PhaseOf(script[self].kind) \in ScriptPhase
      BY <3>1 DEF ScriptKind, PhaseOf, ScriptPhase, Phase
    <3> QED
      BY <3>1, <3>2 DEF FailureMarker, Marker, MarkerStatus
  <2>3. StoreTypeOK'
    BY <1>1, <1>17, <2>2 DEF MarkFailureWrite, StoreTypeOK
  <2> QED
    BY <1>1, <1>4, <1>17, <2>1, <2>3, StepKeepsTypes DEF MarkFailureWrite
<1>18. CASE Kill(self)
  <2>1. script' \in [ScriptProcs -> ScriptFrame] /\ script'[self].pc = "idle" /\ OthersStay(self)
    BY <1>1, <1>18, EndFacts DEF Kill
  <2> QED
    BY <1>1, <1>3, <1>4, <1>18, <2>1, StepKeepsTypes DEF Kill
<1> QED
  BY <1>6, <1>7, <1>8, <1>10, <1>11, <1>12, <1>13, <1>14, <1>15, <1>16, <1>17, <1>18 DEF ScriptStep

(* Together they make the types an invariant.                              *)
LEMMA ScriptsTypedNext ==
  ASSUME StoreAssumption, ScriptAssumption, ScriptsTyped, [ScriptNext]_allScriptVars
  PROVE  ScriptsTyped'
<1>1. CASE ScriptNext
  BY <1>1, ScriptStepKeepsTypes DEF ScriptNext
<1>2. CASE UNCHANGED allScriptVars
  BY <1>2 DEF allScriptVars, scriptVars, storeVars, ScriptsTyped, ScriptTypeOK, StoreTypeOK,
              ScriptFrameOK, Busy, InScript
<1> QED
  BY <1>1, <1>2

LEMMA ScriptsTypedInvariant == ScriptSpec => []ScriptsTyped
<1>1. ScriptsAloneInit => ScriptsTyped
  BY StoreAssumption, ScriptsTypedInit
<1>2. ScriptsTyped /\ [ScriptNext]_allScriptVars => ScriptsTyped'
  BY StoreAssumption, ScriptAssumption, ScriptsTypedNext
<1> QED
  BY <1>1, <1>2, PTL DEF ScriptSpec

(* The files and the memory of every script keep their types.              *)
THEOREM ScriptTyping == ScriptSpec => []ScriptTypeOK
<1>1. ScriptsTyped => ScriptTypeOK
  BY DEF ScriptsTyped
<1> QED
  BY <1>1, ScriptsTypedInvariant, PTL

-----------------------------------------------------------------------------
(***************************************************************************)
(* No phantom job                                                          *)
(***************************************************************************)

(* Between its check and its write an invocation has found the job real,   *)
(* or is the collect that may fail before there is one.                    *)
ChecksHold(self) ==
    /\ InScript(self, "reviewWrite") => JobIsReal
    /\ InScript(self, "markWrite") => MayMark(script[self].kind)

PhantomInv == NoPhantomJob /\ \A self \in ScriptProcs : ChecksHold(self)

(* A job that is real stays real, so the other invocations' checks hold.   *)
LEMMA ChecksStay ==
  ASSUME ScriptsTyped, PhantomInv, NEW self \in ScriptProcs, OthersStay(self),
         JobIsReal => JobIsReal', NoPhantomJob', ChecksHold(self)'
  PROVE  PhantomInv'
<1>1. ASSUME NEW other \in ScriptProcs \ {self}
      PROVE  ChecksHold(other)'
  BY DEF OthersStay, PhantomInv, ChecksHold, InScript, MayMark
<1> QED
  BY <1>1 DEF PhantomInv

LEMMA PhantomInit ==
  ASSUME ScriptsAloneInit
  PROVE  PhantomInv
<1>1. marker.status # "FAILED" /\ ~review
  BY DEF ScriptsAloneInit, ScriptStoreInit, PlainMarker
<1>2. \A self \in ScriptProcs : script[self].pc = "idle"
  BY DEF ScriptsAloneInit, ScriptInit, ScriptIdle
<1> QED
  BY <1>1, <1>2 DEF PhantomInv, NoPhantomJob, ChecksHold, InScript

(* A step that only moves an invocation on, to where no check is owed.     *)
LEMMA QuietKeepsPhantom ==
  ASSUME ScriptsTyped, PhantomInv, NEW self \in ScriptProcs, OthersStay(self),
         script'[self].pc \notin {"reviewWrite", "markWrite"},
         JobIsReal => JobIsReal',
         marker' = marker \/ marker'.status # "FAILED",
         review' = review
  PROVE  PhantomInv'
<1>1. NoPhantomJob'
  BY DEF PhantomInv, NoPhantomJob
<1>2. ChecksHold(self)'
  BY DEF ChecksHold, InScript
<1> QED
  BY <1>1, <1>2, ChecksStay

LEMMA PhantomStep ==
  ASSUME StoreAssumption, ScriptAssumption, ScriptsTyped, PhantomInv,
         NEW self \in ScriptProcs, ScriptStep(self)
  PROVE  PhantomInv'
<1>1. /\ script \in [ScriptProcs -> ScriptFrame] /\ ScriptTypeOK
      /\ ScriptFrameOK(self) /\ ChecksHold(self) /\ NoPhantomJob
  BY DEF ScriptsTyped, ScriptTypeOK, PhantomInv
<1>2. {"resolve", "clearRead", "clearWrite", "reviewRead", "reviewWrite", "work", "markRead",
       "markWrite"} \subseteq ScriptPc
  BY DEF ScriptPc
<1>3. ASSUME storeVars' = storeVars
      PROVE  marker' = marker /\ review' = review /\ arts' = arts /\ (JobIsReal => JobIsReal')
             /\ NoPhantomJob'
  BY <1>1, <1>3 DEF storeVars, JobIsReal, NoPhantomJob
<1>4. CASE StartScript(self)
  <2>1. script'[self].pc \notin {"reviewWrite", "markWrite"} /\ OthersStay(self)
    BY <1>1, <1>4 DEF StartScript, OthersStay, AttemptOf
  <2> QED
    BY <1>3, <1>4, <2>1, QuietKeepsPhantom DEF StartScript
<1>5. CASE Resolve(self)
  <2>1. script'[self].pc = "clearRead" /\ OthersStay(self)
    BY <1>1, <1>2, <1>5, GotoFacts DEF Resolve
  <2> QED
    BY <1>3, <1>5, <2>1, QuietKeepsPhantom DEF Resolve
<1>6. ASSUME ScriptEnd(self), storeVars' = storeVars
      PROVE  PhantomInv'
  <2>1. script'[self].pc = "idle" /\ OthersStay(self)
    BY <1>1, <1>6, EndFacts
  <2> QED
    BY <1>3, <1>6, <2>1, QuietKeepsPhantom
<1>7. ASSUME GoOn(self, AfterClear(script[self].kind)) \/ GoOn(self, "work"),
             JobIsReal => JobIsReal', marker' = marker \/ marker'.status # "FAILED",
             review' = review
      PROVE  PhantomInv'
  <2>1. PICK pc \in {"reviewRead", "work"} : GoOn(self, pc)
    BY <1>7, AfterClearIs
  <2>2. script'[self].pc = pc /\ OthersStay(self)
    BY <1>1, <2>1, GoOnFacts
  <2> QED
    BY <1>7, <2>2, QuietKeepsPhantom
<1>8. CASE ScriptClearRead(self)
  <2>1. CASE ScriptGoto(self, "clearWrite")
    <3>1. script'[self].pc = "clearWrite" /\ OthersStay(self)
      BY <1>1, <1>2, <2>1, GotoFacts
    <3> QED
      BY <1>3, <1>8, <3>1, QuietKeepsPhantom DEF ScriptClearRead
  <2>2. CASE GoOn(self, AfterClear(script[self].kind))
    BY <1>3, <1>7, <1>8, <2>2 DEF ScriptClearRead
  <2> QED
    BY <1>8, <2>1, <2>2 DEF ScriptClearRead
<1>9. CASE ScriptClearWrite(self)
  <2>1. marker'.status # "FAILED" /\ review' = review /\ (JobIsReal => JobIsReal')
    BY <1>9 DEF ScriptClearWrite, PlainMarker, JobIsReal
  <2> QED
    BY <1>7, <1>9, <2>1 DEF ScriptClearWrite
<1>10. CASE ReviewRead(self)
  <2>1. CASE JobIsReal /\ script' = [script EXCEPT ![self].pc = "reviewWrite",
                                                  ![self].seen = meta]
    <3>1. script'[self].pc = "reviewWrite" /\ OthersStay(self)
      BY <1>1, <2>1 DEF OthersStay, AttemptOf, ScriptFrame
    <3>2. ChecksHold(self)'
      BY <1>3, <1>10, <2>1, <3>1 DEF ReviewRead, ChecksHold, InScript
    <3> QED
      BY <1>3, <1>10, <3>1, <3>2, ChecksStay DEF ReviewRead
  <2>2. CASE GoOn(self, "work")
    BY <1>3, <1>7, <1>10, <2>2 DEF ReviewRead
  <2> QED
    BY <1>10, <2>1, <2>2 DEF ReviewRead
<1>11. CASE ReviewWrite(self)
  <2>1. script'[self].pc = "work" /\ OthersStay(self)
    BY <1>1, <1>11 DEF ReviewWrite, OthersStay, AttemptOf, ScriptFrame
  <2>2. JobIsReal /\ JobIsReal'
    BY <1>1, <1>11 DEF ReviewWrite, ChecksHold, JobIsReal
  <2>3. NoPhantomJob' /\ ChecksHold(self)'
    BY <2>1, <2>2 DEF NoPhantomJob, ChecksHold, InScript
  <2> QED
    BY <2>1, <2>2, <2>3, ChecksStay
<1>12. CASE WorkSucceeds(self)
  <2>1. script'[self].pc = "idle" /\ OthersStay(self)
    BY <1>1, <1>12, EndFacts DEF WorkSucceeds
  <2>2. JobIsReal => JobIsReal'
    BY <1>12 DEF WorkSucceeds, JobIsReal
  <2> QED
    BY <1>12, <2>1, <2>2, QuietKeepsPhantom DEF WorkSucceeds
<1>13. CASE WorkFails(self)
  <2>1. script'[self].pc = "markRead" /\ OthersStay(self)
    BY <1>1, <1>2, <1>13, GotoFacts DEF WorkFails
  <2> QED
    BY <1>3, <1>13, <2>1, QuietKeepsPhantom DEF WorkFails
<1>14. CASE MarkFailureRead(self)
  <2>1. CASE MayMark(script[self].kind) /\ ScriptGoto(self, "markWrite")
    <3>1. script'[self].pc = "markWrite" /\ KeepsAttempt(self) /\ OthersStay(self)
      BY <1>1, <1>2, <2>1, GotoFacts
    <3>2. ChecksHold(self)'
      BY <1>3, <1>14, <2>1, <3>1
         DEF MarkFailureRead, ChecksHold, InScript, KeepsAttempt, MayMark
    <3> QED
      BY <1>3, <1>14, <3>1, <3>2, ChecksStay DEF MarkFailureRead
  <2> QED
    BY <1>6, <1>14, <2>1 DEF MarkFailureRead
<1>15. CASE MarkFailureWrite(self)
  <2>1. script'[self].pc = "idle" /\ OthersStay(self)
    BY <1>1, <1>15, EndFacts DEF MarkFailureWrite
  <2>2. MayMark(script[self].kind) /\ (JobIsReal <=> JobIsReal')
    BY <1>1, <1>15 DEF MarkFailureWrite, ChecksHold, JobIsReal
  <2>3. NoPhantomJob'
    <3>1. marker'.phase = PhaseOf(script[self].kind) /\ review' = review
      BY <1>15 DEF MarkFailureWrite, FailureMarker
    <3> QED
      BY <1>1, <2>2, <3>1 DEF NoPhantomJob, MayMark, PhaseOf
  <2>4. ChecksHold(self)'
    BY <2>1 DEF ChecksHold, InScript
  <2> QED
    BY <2>1, <2>2, <2>3, <2>4, ChecksStay
<1> QED
  BY <1>4, <1>5, <1>6, <1>8, <1>9, <1>10, <1>11, <1>12, <1>13, <1>14, <1>15
     DEF ScriptStep, ResolveRaises, Kill

LEMMA PhantomInvariant == ScriptSpec => []PhantomInv
<1>1. ScriptsAloneInit => PhantomInv
  BY PhantomInit
<1>2. ScriptsTyped /\ PhantomInv /\ [ScriptNext]_allScriptVars => PhantomInv'
  <2>1. ASSUME ScriptsTyped, PhantomInv, ScriptNext
        PROVE  PhantomInv'
    BY <2>1, StoreAssumption, ScriptAssumption, PhantomStep DEF ScriptNext
  <2>2. ASSUME PhantomInv, UNCHANGED allScriptVars
        PROVE  PhantomInv'
    BY <2>2 DEF allScriptVars, scriptVars, storeVars, PhantomInv, NoPhantomJob, ChecksHold,
                InScript, MayMark, JobIsReal
  <2> QED
    BY <2>1, <2>2
<1> QED
  BY <1>1, <1>2, ScriptsTypedInvariant, PTL DEF ScriptSpec

(* Until collect has written its output, whatever scripts are started for  *)
(* the job leave no decision and no marker but collect's own.              *)
THEOREM NothingOfAPhantom == ScriptSpec => []NoPhantomJob
<1>1. PhantomInv => NoPhantomJob
  BY DEF PhantomInv
<1> QED
  BY <1>1, PhantomInvariant, PTL

-----------------------------------------------------------------------------
(***************************************************************************)
(* A FAILED marker still stands                                            *)
(***************************************************************************)

MarkerOf(self) ==
    marker.status = "FAILED" /\ <<marker.phase, marker.engine>> = AttemptOf(self)

(* No two invocations make the same attempt.                               *)
OneEach ==
    \A p, q \in ScriptProcs : p # q /\ Busy(p) /\ Busy(q) => AttemptOf(p) # AttemptOf(q)

(* Past its clearing an invocation finds no failure of its own attempt in  *)
(* the marker; at work the attempt is open; then it has failed.            *)
AttemptOK(self) ==
    /\ script[self].pc \in {"reviewRead", "reviewWrite"} => ~MarkerOf(self)
    /\ InScript(self, "work") => last[AttemptOf(self)] = "running"
    /\ script[self].pc \in {"markRead", "markWrite"} => last[AttemptOf(self)] = "failed"

CurrentInv ==
    /\ FailedMarkerIsCurrent
    /\ marker.status = "FAILED" => <<marker.phase, marker.engine>> \in Attempt
    /\ OneEach
    /\ \A self \in ScriptProcs : AttemptOK(self)

LEMMA CurrentInit ==
  ASSUME ScriptsAloneInit
  PROVE  CurrentInv
<1>1. marker.status # "FAILED"
  BY DEF ScriptsAloneInit, ScriptStoreInit, PlainMarker
<1>2. \A self \in ScriptProcs : script[self].pc = "idle"
  BY DEF ScriptsAloneInit, ScriptInit, ScriptIdle
<1> QED
  BY <1>1, <1>2 DEF CurrentInv, FailedMarkerIsCurrent, OneEach, AttemptOK, MarkerOf, Busy, InScript

(* A step of a busy invocation: it changes the record of its own attempt   *)
(* at most, and writes a failure of its own at most.                       *)
LEMMA BusyStep ==
  ASSUME ScriptsTyped, CurrentInv, NEW self \in ScriptProcs, Busy(self), OthersStay(self),
         script'[self].pc = "idle" \/ KeepsAttempt(self),
         \A a \in Attempt \ {AttemptOf(self)} : last'[a] = last[a],
         \/ marker' = marker
         \/ marker'.status # "FAILED"
         \/ <<marker'.phase, marker'.engine>> = AttemptOf(self),
         (/\ marker'.status = "FAILED"
          /\ <<marker'.phase, marker'.engine>> = AttemptOf(self))
            => last'[AttemptOf(self)] = "failed",
         AttemptOK(self)'
  PROVE  CurrentInv'
<1>1. script \in [ScriptProcs -> ScriptFrame]
  BY DEF ScriptsTyped, ScriptTypeOK
<1>2. marker'.status = "FAILED" =>
         /\ <<marker'.phase, marker'.engine>> \in Attempt
         /\ last'[<<marker'.phase, marker'.engine>>] = "failed"
  BY <1>1, AttemptType DEF CurrentInv, FailedMarkerIsCurrent
<1>3. OneEach'
  <2>1. \A p \in ScriptProcs : Busy(p)' => Busy(p) /\ AttemptOf(p)' = AttemptOf(p)
    BY DEF OthersStay, KeepsAttempt, Busy, InScript
  <2>2. OneEach
    BY DEF CurrentInv
  <2> QED
    BY <2>1, <2>2 DEF OneEach
<1>4. ASSUME NEW other \in ScriptProcs \ {self}
      PROVE  AttemptOK(other)'
  <2>1. script'[other] = script[other] /\ AttemptOf(other)' = AttemptOf(other)
        /\ AttemptOK(other)
    BY DEF OthersStay, CurrentInv
  <2>2. AttemptOf(other) \in Attempt
    BY <1>1, AttemptType
  <2>3. CASE Busy(other)
    <3>1. AttemptOf(other) # AttemptOf(self)
      BY <2>3 DEF CurrentInv, OneEach
    <3>2. last'[AttemptOf(other)] = last[AttemptOf(other)]
      BY <2>2, <3>1
    <3>3. MarkerOf(other)' => MarkerOf(other)
      BY <2>1, <3>1 DEF MarkerOf
    <3> QED
      BY <2>1, <3>2, <3>3 DEF AttemptOK, InScript
  <2>4. CASE ~Busy(other)
    BY <2>1, <2>4 DEF AttemptOK, Busy, InScript
  <2> QED
    BY <2>3, <2>4
<1> QED
  BY <1>2, <1>3, <1>4 DEF CurrentInv, FailedMarkerIsCurrent

(* Where clear_failure_marker leaves the marker alone, it does not name    *)
(* the attempt about to be made.                                           *)
LEMMA NotClearedIsNotMine ==
  ASSUME NEW self \in ScriptProcs, ClearsOwnMarker(script[self].kind), NoPhantomJob,
         ~(/\ MayMark(script[self].kind)
           /\ Clears(marker, script[self].kind, script[self].engine))
  PROVE  ~MarkerOf(self)
<1>1. PhaseOf(script[self].kind) = script[self].kind
  BY DEF PhaseOf, ClearsOwnMarker
<1> QED
  BY <1>1 DEF MarkerOf, AttemptOf, NoPhantomJob, MayMark, Clears

LEMMA CurrentStep ==
  ASSUME StoreAssumption, ScriptAssumption, \A kind \in Kinds : ClearsOwnMarker(kind),
         ScriptsTyped, PhantomInv, CurrentInv, NEW self \in ScriptProcs, ScriptStep(self)
  PROVE  CurrentInv'
<1>1. /\ script \in [ScriptProcs -> ScriptFrame] /\ last \in [Attempt -> Outcome]
      /\ ScriptTypeOK /\ ScriptFrameOK(self) /\ NoPhantomJob /\ AttemptOK(self)
      /\ AttemptOf(self) \in Attempt
  BY AttemptType DEF ScriptsTyped, ScriptTypeOK, PhantomInv, CurrentInv
<1>2. /\ {"resolve", "clearRead", "clearWrite", "reviewRead", "reviewWrite", "work", "markRead",
          "markWrite"} \subseteq ScriptPc
      /\ {"running", "ok", "failed"} \subseteq Outcome
  BY DEF ScriptPc, Outcome
<1>3. storeVars' = storeVars => marker' = marker
  BY DEF storeVars
<1>4. MarkerOf(self) => last[AttemptOf(self)] = "failed"
  BY DEF CurrentInv, FailedMarkerIsCurrent, MarkerOf
<1>5. CASE StartScript(self)
  <2> DEFINE Starts(kind, e) ==
                /\ \A other \in ScriptProcs :
                      ~InScript(other, "idle") => AttemptOf(other) # <<PhaseOf(kind), e>>
                /\ script' = [script EXCEPT ![self] =
                      [pc |-> IF PastTheGate(kind) THEN "resolve"
                              ELSE IF ClearsOwnMarker(kind) THEN "clearRead" ELSE "work",
                       kind |-> kind, engine |-> e, seen |-> NoMeta]]
                /\ IF ClearsOwnMarker(kind) THEN UNCHANGED last
                   ELSE last' = [last EXCEPT ![<<PhaseOf(kind), e>>] = "running"]
  <2>1. PICK kind \in Kinds : \E e \in EnginesOf(kind) : Starts(kind, e)
    BY <1>5 DEF StartScript
  <2>2. PICK e \in EnginesOf(kind) : Starts(kind, e)
    BY <2>1
  <2>3. ClearsOwnMarker(kind)
    OBVIOUS
  <2>4. /\ script'[self].pc \in {"resolve", "clearRead"}
        /\ AttemptOf(self)' = <<PhaseOf(kind), e>> /\ OthersStay(self)
    BY <1>1, <2>2, <2>3 DEF OthersStay, AttemptOf
  <2>5. last' = last /\ marker' = marker
    BY <1>3, <1>5, <2>2, <2>3 DEF StartScript
  <2>6. ASSUME NEW p \in ScriptProcs
        PROVE  AttemptOK(p)'
    BY <2>4, <2>5 DEF AttemptOK, CurrentInv, InScript, MarkerOf, OthersStay
  <2>7. OneEach'
    <3>1. \A p \in ScriptProcs \ {self} : Busy(p)' => Busy(p) /\ AttemptOf(p)' = AttemptOf(p)
      BY <2>4 DEF OthersStay, Busy, InScript
    <3>2. \A p \in ScriptProcs \ {self} : Busy(p) => AttemptOf(p) # AttemptOf(self)'
      BY <2>2, <2>4 DEF Busy
    <3>3. OneEach
      BY DEF CurrentInv
    <3> QED
      BY <3>1, <3>2, <3>3 DEF OneEach
  <2> QED
    BY <2>5, <2>6, <2>7 DEF CurrentInv, FailedMarkerIsCurrent
<1>6. ASSUME ScriptEnd(self), Busy(self), marker' = marker,
             \A a \in Attempt \ {AttemptOf(self)} : last'[a] = last[a],
             MarkerOf(self) => last'[AttemptOf(self)] = "failed"
      PROVE  CurrentInv'
  <2>1. script'[self].pc = "idle" /\ OthersStay(self)
    BY <1>1, <1>6, EndFacts
  <2>2. AttemptOK(self)'
    BY <2>1 DEF AttemptOK, InScript
  <2> QED
    BY <1>6, <2>1, <2>2, BusyStep DEF MarkerOf
<1>7. ASSUME Busy(self), NEW pc \in {"reviewRead", "work"}, GoOn(self, pc),
             marker' = marker \/ marker'.status # "FAILED",
             marker' = marker => ~MarkerOf(self)
      PROVE  CurrentInv'
  <2>1. /\ script'[self].pc = pc /\ KeepsAttempt(self) /\ OthersStay(self)
        /\ \A a \in Attempt \ {AttemptOf(self)} : last'[a] = last[a]
        /\ pc = "work" => last'[AttemptOf(self)] = "running"
    BY <1>1, <1>7, GoOnFacts
  <2>2. ~(/\ marker'.status = "FAILED"
          /\ <<marker'.phase, marker'.engine>> = AttemptOf(self))
    BY <1>7 DEF MarkerOf
  <2>3. ~MarkerOf(self)'
    BY <2>1, <2>2 DEF MarkerOf, KeepsAttempt
  <2>4. AttemptOK(self)'
    BY <2>1, <2>3 DEF AttemptOK, InScript, KeepsAttempt
  <2> QED
    BY <1>7, <2>1, <2>2, <2>4, BusyStep
<1>8. ASSUME Busy(self), NEW pc \in {"clearRead", "clearWrite"}, ScriptGoto(self, pc),
             storeVars' = storeVars, last' = last
      PROVE  CurrentInv'
  <2>1. script'[self].pc = pc /\ KeepsAttempt(self) /\ OthersStay(self)
    BY <1>1, <1>2, <1>8, GotoFacts
  <2>2. AttemptOK(self)'
    BY <2>1 DEF AttemptOK, InScript
  <2> QED
    BY <1>3, <1>4, <1>8, <2>1, <2>2, BusyStep DEF MarkerOf
<1>9. ASSUME Busy(self), NEW pc \in {"markRead", "markWrite"}, ScriptGoto(self, pc),
             storeVars' = storeVars, \A a \in Attempt \ {AttemptOf(self)} : last'[a] = last[a],
             last'[AttemptOf(self)] = "failed"
      PROVE  CurrentInv'
  <2>1. script'[self].pc = pc /\ KeepsAttempt(self) /\ OthersStay(self)
    BY <1>1, <1>2, <1>9, GotoFacts
  <2>2. AttemptOK(self)'
    BY <1>9, <2>1 DEF AttemptOK, InScript, KeepsAttempt
  <2> QED
    BY <1>3, <1>9, <2>1, <2>2, BusyStep
<1>10. CASE Resolve(self)
  BY <1>8, <1>10 DEF Resolve, Busy, InScript
<1>11. CASE ResolveRaises(self)
  BY <1>1, <1>2, <1>3, <1>6, <1>11, RecordFacts DEF ResolveRaises, Busy, InScript
<1>12. CASE ScriptClearRead(self)
  <2>1. CASE ScriptGoto(self, "clearWrite") /\ UNCHANGED last
    BY <1>8, <1>12, <2>1 DEF ScriptClearRead, Busy, InScript
  <2>2. CASE /\ ~(/\ MayMark(script[self].kind)
                  /\ Clears(marker, script[self].kind, script[self].engine))
             /\ GoOn(self, AfterClear(script[self].kind))
    <3>1. Busy(self) /\ ClearsOwnMarker(script[self].kind)
      BY <1>1, <1>12 DEF ScriptClearRead, ScriptFrameOK, Busy, InScript
    <3>2. ~MarkerOf(self)
      BY <1>1, <2>2, <3>1, NotClearedIsNotMine
    <3> QED
      BY <1>3, <1>7, <1>12, <2>2, <3>1, <3>2, AfterClearIs DEF ScriptClearRead
  <2> QED
    BY <1>12, <2>1, <2>2 DEF ScriptClearRead
<1>13. CASE ScriptClearWrite(self)
  <2>1. Busy(self) /\ GoOn(self, AfterClear(script[self].kind))
    BY <1>13 DEF ScriptClearWrite, Busy, InScript
  <2>2. marker'.status # "FAILED" /\ (marker' = marker => ~MarkerOf(self))
    BY <1>13 DEF ScriptClearWrite, PlainMarker, MarkerOf
  <2> QED
    BY <1>7, <2>1, <2>2, AfterClearIs
<1>14. CASE ReviewRead(self)
  <2>1. Busy(self) /\ ~MarkerOf(self) /\ marker' = marker
    BY <1>1, <1>3, <1>14 DEF ReviewRead, AttemptOK, Busy, InScript
  <2>2. CASE /\ script' = [script EXCEPT ![self].pc = "reviewWrite", ![self].seen = meta]
             /\ UNCHANGED last
    <3>1. script'[self].pc = "reviewWrite" /\ KeepsAttempt(self) /\ OthersStay(self)
      BY <1>1, <2>2 DEF KeepsAttempt, OthersStay, AttemptOf, ScriptFrame
    <3>2. AttemptOK(self)'
      BY <2>1, <3>1 DEF AttemptOK, InScript, MarkerOf, KeepsAttempt
    <3> QED
      BY <2>1, <2>2, <3>1, <3>2, BusyStep DEF MarkerOf
  <2>3. CASE GoOn(self, "work")
    BY <1>7, <2>1, <2>3
  <2> QED
    BY <1>14, <2>2, <2>3 DEF ReviewRead
<1>15. CASE ReviewWrite(self)
  <2>1. Busy(self) /\ ~MarkerOf(self) /\ marker' = marker
    BY <1>1, <1>15 DEF ReviewWrite, AttemptOK, Busy, InScript
  <2>2. script'[self].pc = "work" /\ KeepsAttempt(self) /\ OthersStay(self)
    BY <1>1, <1>15 DEF ReviewWrite, KeepsAttempt, OthersStay, AttemptOf, ScriptFrame
  <2>3. /\ last'[AttemptOf(self)] = "running"
        /\ \A a \in Attempt \ {AttemptOf(self)} : last'[a] = last[a]
    BY <1>1, <1>2, <1>15, RecordFacts DEF ReviewWrite
  <2>4. AttemptOK(self)'
    BY <2>2, <2>3 DEF AttemptOK, InScript, KeepsAttempt
  <2> QED
    BY <2>1, <2>2, <2>3, <2>4, BusyStep DEF MarkerOf
<1>16. CASE WorkSucceeds(self)
  <2>1. ~MarkerOf(self)
    BY <1>1, <1>4, <1>16 DEF WorkSucceeds, AttemptOK
  <2> QED
    BY <1>1, <1>2, <1>6, <1>16, <2>1, RecordFacts DEF WorkSucceeds, Busy, InScript
<1>17. CASE WorkFails(self)
  BY <1>1, <1>2, <1>9, <1>17, RecordFacts DEF WorkFails, Busy, InScript
<1>18. CASE MarkFailureRead(self)
  <2>1. Busy(self) /\ last[AttemptOf(self)] = "failed" /\ storeVars' = storeVars /\ last' = last
    BY <1>1, <1>18 DEF MarkFailureRead, AttemptOK, Busy, InScript
  <2>2. CASE ScriptGoto(self, "markWrite")
    BY <1>9, <2>1, <2>2
  <2>3. CASE ScriptEnd(self)
    BY <1>3, <1>4, <1>6, <2>1, <2>3
  <2> QED
    BY <1>18, <2>2, <2>3 DEF MarkFailureRead
<1>19. CASE MarkFailureWrite(self)
  <2>1. script'[self].pc = "idle" /\ OthersStay(self)
    BY <1>1, <1>19, EndFacts DEF MarkFailureWrite
  <2>2. Busy(self) /\ last'[AttemptOf(self)] = "failed" /\ last' = last
    BY <1>1, <1>19 DEF MarkFailureWrite, AttemptOK, Busy, InScript
  <2>3. <<marker'.phase, marker'.engine>> = AttemptOf(self)
    BY <1>19 DEF MarkFailureWrite, FailureMarker, AttemptOf
  <2>4. AttemptOK(self)'
    BY <2>1 DEF AttemptOK, InScript
  <2> QED
    BY <2>1, <2>2, <2>3, <2>4, BusyStep
<1>20. CASE Kill(self)
  BY <1>3, <1>4, <1>6, <1>20 DEF Kill, Busy
<1> QED
  BY <1>5, <1>10, <1>11, <1>12, <1>13, <1>14, <1>15, <1>16, <1>17, <1>18, <1>19, <1>20
     DEF ScriptStep

(* For any scripts that clear their own marker (pe_review and post_schema  *)
(* do not): however many engines' scripts read, clear and write the one    *)
(* marker at the same time, a failure it shows is that of an attempt that  *)
(* failed and is not being made again.                                     *)
THEOREM MarkerCurrent ==
  ASSUME \A kind \in Kinds : ClearsOwnMarker(kind)
  PROVE  ScriptSpec => []FailedMarkerIsCurrent
<1>1. ScriptsAloneInit => CurrentInv
  BY CurrentInit
<1>2. ScriptsTyped /\ PhantomInv /\ CurrentInv /\ [ScriptNext]_allScriptVars => CurrentInv'
  <2>1. ASSUME ScriptsTyped, PhantomInv, CurrentInv, ScriptNext
        PROVE  CurrentInv'
    BY <2>1, StoreAssumption, ScriptAssumption, CurrentStep DEF ScriptNext
  <2>2. ASSUME CurrentInv, UNCHANGED allScriptVars
        PROVE  CurrentInv'
    BY <2>2 DEF allScriptVars, scriptVars, storeVars, CurrentInv, FailedMarkerIsCurrent, OneEach,
                AttemptOK, MarkerOf, AttemptOf, Busy, InScript
  <2> QED
    BY <2>1, <2>2
<1>3. CurrentInv => FailedMarkerIsCurrent
  BY DEF CurrentInv
<1> QED
  BY <1>1, <1>2, <1>3, ScriptsTypedInvariant, PhantomInvariant, PTL DEF ScriptSpec

-----------------------------------------------------------------------------
(***************************************************************************)
(* The review gate                                                         *)
(***************************************************************************)

PastGateAtWork(self) ==
    InScript(self, "work") /\ PastTheGate(script[self].kind) /\ JobIsReal => ApprovalGiven

(* A step keeps what the others found recorded, if it takes nothing back   *)
(* and creates no job.                                                     *)
LEMMA GateKept ==
  ASSUME ScriptsTyped, GateRecordedAtWork, NEW self \in ScriptProcs, OthersStay(self),
         ApprovalGiven => ApprovalGiven', JobIsReal' => JobIsReal, PastGateAtWork(self)'
  PROVE  GateRecordedAtWork'
<1>1. ASSUME NEW other \in ScriptProcs \ {self}
      PROVE  PastGateAtWork(other)'
  BY DEF OthersStay, GateRecordedAtWork, PastGateAtWork, InScript
<1> QED
  BY <1>1 DEF GateRecordedAtWork, PastGateAtWork

(* Merging the review into .meta, or recording the decision, gives it.     *)
LEMMA ReviewWriteGives ==
  ASSUME StoreAssumption, ScriptTypeOK, NEW self \in ScriptProcs, ReviewWrite(self)
  PROVE  ApprovalGiven'
<1> DEFINE seen == script[self].seen
           merged == [seen EXCEPT !["assignment_review"].status = "completed"]
<1>1. seen \in Progression \cup {NoMeta}
  BY DEF ScriptTypeOK, ScriptFrame
<1>2. CASE seen = NoMeta
  BY <1>2 DEF ReviewWrite, ApprovalGiven
<1>3. CASE seen # NoMeta
  <2>1. merged \in Progression /\ merged["assignment_review"].status = "completed"
    BY <1>1, <1>3 DEF Progression, PhaseRecord, PhaseStatus, Phase
  <2>2. meta' = merged
    BY <1>3 DEF ReviewWrite
  <2> QED
    BY <2>1, <2>2 DEF ApprovalGiven, StoreAssumption
<1> QED
  BY <1>2, <1>3

LEMMA GateStep ==
  ASSUME StoreAssumption, ScriptAssumption, "collect" \notin Kinds,
         ScriptsTyped, GateRecordedAtWork, NEW self \in ScriptProcs, ScriptStep(self)
  PROVE  GateRecordedAtWork'
<1>1. /\ script \in [ScriptProcs -> ScriptFrame] /\ ScriptTypeOK /\ ScriptFrameOK(self)
  BY DEF ScriptsTyped, ScriptTypeOK
<1>2. {"resolve", "clearRead", "clearWrite", "reviewRead", "reviewWrite", "work", "markRead",
       "markWrite"} \subseteq ScriptPc
  BY DEF ScriptPc
<1>3. ASSUME meta' = meta, review' = review
      PROVE  ApprovalGiven => ApprovalGiven'
  BY <1>3 DEF ApprovalGiven
<1>4. arts' = arts => (JobIsReal' => JobIsReal)
  BY DEF JobIsReal
<1>5. storeVars' = storeVars => meta' = meta /\ review' = review /\ arts' = arts
  BY DEF storeVars
<1>6. ASSUME OthersStay(self), meta' = meta, review' = review, JobIsReal' => JobIsReal,
             script'[self].pc # "work" \/ ~PastTheGate(script'[self].kind)
      PROVE  GateRecordedAtWork'
  <2>1. PastGateAtWork(self)'
    BY <1>6 DEF PastGateAtWork, InScript
  <2> QED
    BY <1>3, <1>6, <2>1, GateKept
<1>7. ASSUME ScriptEnd(self), meta' = meta, review' = review, JobIsReal' => JobIsReal
      PROVE  GateRecordedAtWork'
  <2>1. script'[self].pc = "idle" /\ OthersStay(self)
    BY <1>1, <1>7, EndFacts
  <2> QED
    BY <1>6, <1>7, <2>1
<1>8. ASSUME NEW pc \in ScriptPc, pc # "work", ScriptGoto(self, pc), storeVars' = storeVars
      PROVE  GateRecordedAtWork'
  <2>1. script'[self].pc = pc /\ OthersStay(self)
    BY <1>1, <1>8, GotoFacts
  <2> QED
    BY <1>4, <1>5, <1>6, <1>8, <2>1
<1>9. ASSUME GoOn(self, AfterClear(script[self].kind)), meta' = meta, review' = review,
             arts' = arts
      PROVE  GateRecordedAtWork'
  <2> DEFINE pc == AfterClear(script[self].kind)
  <2>1. pc \in {"reviewRead", "work"} /\ (pc = "work" => ~PastTheGate(script[self].kind))
    BY DEF AfterClear
  <2> HIDE DEF pc
  <2>2. script'[self].pc = pc /\ script'[self].kind = script[self].kind /\ OthersStay(self)
    BY <1>1, <1>9, <2>1, GoOnFacts DEF pc, KeepsAttempt
  <2> QED
    BY <1>4, <1>6, <1>9, <2>1, <2>2
<1>10. CASE StartScript(self)
  <2>1. OthersStay(self)
    BY <1>1, <1>10 DEF StartScript, OthersStay, AttemptOf
  <2>2. script'[self].pc # "work" \/ ~PastTheGate(script'[self].kind)
    BY <1>1, <1>10 DEF StartScript
  <2> QED
    BY <1>4, <1>5, <1>6, <1>10, <2>1, <2>2 DEF StartScript
<1>11. CASE Resolve(self)
  BY <1>2, <1>5, <1>8, <1>11 DEF Resolve
<1>12. CASE ResolveRaises(self)
  BY <1>4, <1>5, <1>7, <1>12 DEF ResolveRaises
<1>13. CASE ScriptClearRead(self)
  BY <1>2, <1>5, <1>8, <1>9, <1>13 DEF ScriptClearRead
<1>14. CASE ScriptClearWrite(self)
  BY <1>9, <1>14 DEF ScriptClearWrite
<1>15. CASE ReviewRead(self)
  <2>1. meta' = meta /\ review' = review /\ arts' = arts
    BY <1>5, <1>15 DEF ReviewRead
  <2>2. CASE script' = [script EXCEPT ![self].pc = "reviewWrite", ![self].seen = meta]
    <3>1. script'[self].pc = "reviewWrite" /\ OthersStay(self)
      BY <1>1, <2>2 DEF OthersStay, AttemptOf, ScriptFrame
    <3> QED
      BY <1>4, <1>6, <2>1, <3>1
  <2>3. CASE GoOn(self, "work") /\ (JobIsReal => ApprovalGiven)
    <3>1. script'[self].pc = "work" /\ OthersStay(self)
      BY <1>1, <2>3, GoOnFacts
    <3>2. PastGateAtWork(self)'
      BY <1>3, <1>4, <2>1, <2>3 DEF PastGateAtWork
    <3> QED
      BY <1>3, <1>4, <2>1, <3>1, <3>2, GateKept
  <2> QED
    BY <1>15, <2>2, <2>3 DEF ReviewRead, ApprovalGiven
<1>16. CASE ReviewWrite(self)
  <2>1. ApprovalGiven'
    BY <1>1, <1>16, ReviewWriteGives
  <2>2. OthersStay(self) /\ arts' = arts
    BY <1>1, <1>16 DEF ReviewWrite, OthersStay, AttemptOf, ScriptFrame
  <2> QED
    BY <1>4, <2>1, <2>2, GateKept DEF PastGateAtWork
<1>17. CASE WorkSucceeds(self)
  <2>1. script[self].kind \in ScriptKind /\ script[self].kind # "collect"
    BY <1>1, <1>17 DEF WorkSucceeds, ScriptFrame, ScriptFrameOK, Busy, InScript
  <2>2. "collector" \notin Produces(script[self].kind)
    BY <2>1 DEF Produces, ScriptKind
  <2>3. JobIsReal' => JobIsReal
    BY <1>17, <2>2 DEF WorkSucceeds, JobIsReal
  <2> QED
    BY <1>7, <1>17, <2>3 DEF WorkSucceeds
<1>18. CASE WorkFails(self)
  BY <1>2, <1>5, <1>8, <1>18 DEF WorkFails
<1>19. CASE MarkFailureRead(self)
  BY <1>2, <1>4, <1>5, <1>7, <1>8, <1>19 DEF MarkFailureRead
<1>20. CASE MarkFailureWrite(self)
  BY <1>4, <1>7, <1>20 DEF MarkFailureWrite
<1>21. CASE Kill(self)
  BY <1>4, <1>5, <1>7, <1>21 DEF Kill
<1> QED
  BY <1>10, <1>11, <1>12, <1>13, <1>14, <1>15, <1>16, <1>17, <1>18, <1>19, <1>20, <1>21
     DEF ScriptStep

(* On a job that nobody is still collecting, every schema design and       *)
(* synthesis at work finds the review gate recorded, in .meta or in        *)
(* decisions/, whoever else records it or writes .meta back meanwhile.     *)
THEOREM GateRecorded ==
  ASSUME "collect" \notin Kinds
  PROVE  ScriptSpec => []GateRecordedAtWork
<1>1. ScriptsAloneInit => GateRecordedAtWork
  BY DEF ScriptsAloneInit, ScriptInit, ScriptIdle, GateRecordedAtWork, InScript
<1>2. ScriptsTyped /\ GateRecordedAtWork /\ [ScriptNext]_allScriptVars => GateRecordedAtWork'
  <2>1. ASSUME ScriptsTyped, GateRecordedAtWork, ScriptNext
        PROVE  GateRecordedAtWork'
    BY <2>1, StoreAssumption, ScriptAssumption, GateStep DEF ScriptNext
  <2>2. ASSUME GateRecordedAtWork, UNCHANGED allScriptVars
        PROVE  GateRecordedAtWork'
    BY <2>2 DEF allScriptVars, scriptVars, storeVars, GateRecordedAtWork, InScript, JobIsReal,
                ApprovalGiven
  <2> QED
    BY <2>1, <2>2
<1> QED
  BY <1>1, <1>2, ScriptsTypedInvariant, PTL DEF ScriptSpec
=============================================================================
