------------------------- MODULE AssignmentFlowProofs -------------------------
(***************************************************************************)
(* What holds of AssignmentFlow for any number of API calls, reality       *)
(* checks and assignment phases, overlapping as they may and stopped       *)
(* wherever they are: types, and that every lineage of versions is well    *)
(* formed; and, for calls one after the other, that no version is          *)
(* overwritten, a preview is never a run, an edit is of the version the    *)
(* customer saw, their picks stand, a lineage is consolidated once, and a  *)
(* deliverable shows the record of the run its version descends from.      *)
(***************************************************************************)
EXTENDS AssignmentFlow, AssignmentStoreProofs

(***************************************************************************)
(* The inductive invariant                                                 *)
(***************************************************************************)

StoreOK ==
    /\ Versions \subseteq Version /\ \A v \in Versions : asg[v] \in Assignment
    /\ chosen \in [Queries -> Engines \cup {NoEngine}]
    /\ LineageWellFormed
    /\ Effective \in 0 .. MaxVersion

(* A call has an assignment to work on, and knows the version its draft    *)
(* was made from.                                                          *)
GateOK ==
    /\ gate \in [GateProcs -> GateFrame]
    /\ \A p \in GateProcs :
          /\ gate[p].pc # "idle" => Versions # {}
          /\ gate[p].pc \in {"reroute", "rewrite", "write"} =>
                /\ gate[p].input \in Versions
                /\ gate[p].draft \in Assignment
                /\ gate[p].draft.prev = gate[p].input

(* A run checks a version that exists, and its number was the next one     *)
(* when it took it.                                                        *)
CheckOK ==
    /\ rc \in [CheckProcs -> CheckFrame]
    /\ \A p \in CheckProcs :
          rc[p].pc # "idle" =>
             /\ rc[p].input \in Versions
             /\ rc[p].run \in 1 .. Len(checks)
             /\ Consolidates(p) => rc[p].draft.prev = rc[p].input
             /\ rc[p].wrote # 0 => /\ Consolidates(p)
                                   /\ rc[p].input < rc[p].wrote
                                   /\ rc[p].wrote <= Effective + 1
             /\ rc[p].pc = "revise" => rc[p].wrote # 0

RunsOK ==
    /\ rcOut \in Out /\ rcMark \in {"none", "awaiting", "finalized"}
    /\ DOMAIN rcRec \subseteq Version /\ \A v \in DOMAIN rcRec : rcRec[v] \in RunId
    /\ checks \in Seq(CheckRun) /\ Len(checks) <= MaxChecks

ResolverOK ==
    /\ resolver \in [Resolvers -> 0 .. MaxVersion]
    /\ \A p \in Resolvers : resolver[p] <= Effective + 1

EditsOK == edits \in 0 .. MaxEdits

FlowInv == StoreOK /\ GateOK /\ CheckOK /\ RunsOK /\ ResolverOK /\ EditsOK

(***************************************************************************)
(* The versions each writer composes                                       *)
(***************************************************************************)

(* The file of a new key joins the others, which stay.                     *)
LEMMA PutType ==
  ASSUME NEW files, NEW v, NEW file
  PROVE  /\ DOMAIN Put(files, v, file) = DOMAIN files \cup {v}
         /\ \A w \in DOMAIN files \cup {v} :
               Put(files, v, file)[w] = IF w = v THEN file ELSE files[w]
  BY DEF Put

(* Moving queries to an engine keeps an assignment total.                  *)
LEMMA MoveToType ==
  ASSUME NEW owner \in [Queries -> Engines], NEW moved, NEW e \in Engines
  PROVE  MoveTo(owner, moved, e) \in [Queries -> Engines]
  BY DEF MoveTo

(* A customer's edit is an assignment made from the version it edits.      *)
LEMMA EditsType ==
  ASSUME NEW v \in Version, asg[v] \in Assignment, NEW d \in Edits(v)
  PROVE  d \in Assignment /\ d.prev = v
<1>1. ASSUME NEW q \in Queries, NEW e \in Engines, NEW source \in Source
      PROVE  Edited(v, q, e, source) \in Assignment /\ Edited(v, q, e, source).prev = v
  <2>1. MoveTo(asg[v].owner, UnitOf(q), e) \in [Queries -> Engines]
    BY MoveToType DEF Assignment
  <2>2. v \in 0 .. MaxVersion
    BY AssignmentAssumption DEF Version
  <2> QED
    BY <2>1, <2>2 DEF Edited, Assignment
<1>2. \/ \E q \in Queries, e \in Engines : d = Edited(v, q, e, "customer_gate")
      \/ \E q \in Queries, e \in Engines : d = Edited(v, q, e, "auto_decided")
  BY DEF Edits
<1> QED
  BY <1>1, <1>2 DEF Source

(* So is a re-routing.                                                     *)
LEMMA ReroutedType ==
  ASSUME NEW v \in Version, asg[v] \in Assignment, NEW d \in Rerouted(v)
  PROVE  d \in Assignment /\ d.prev = v
<1>1. v \in 0 .. MaxVersion
  BY AssignmentAssumption DEF Version
<1>2. PickedFor(v) \subseteq Engines /\ EnginesOf(v) \subseteq Engines
  BY AssignmentAssumption DEF PickedFor, EnginesOf, Assignment
<1>3. ASSUME NEW e \in Engines
      PROVE  MoveTo(asg[v].owner, WriteGroup, e) \in [Queries -> Engines]
  BY MoveToType DEF Assignment
<1> QED
  BY <1>1, <1>2, <1>3 DEF Rerouted, ReroutedTo, Assignment, Source

(* So is what the reality check composes, whatever it may move.            *)
LEMMA MovesType ==
  ASSUME NEW v \in Version, asg[v] \in Assignment, NEW free, NEW d \in MovesOf(v, free)
  PROVE  d \in Assignment /\ d.prev = v
<1>1. ASSUME NEW queries, NEW e \in Engines
      PROVE  Moved(v, queries, e) \in Assignment /\ Moved(v, queries, e).prev = v
  <2>1. MoveTo(asg[v].owner, queries, e) \in [Queries -> Engines]
    BY MoveToType DEF Assignment
  <2>2. v \in 0 .. MaxVersion
    BY AssignmentAssumption DEF Version
  <2> QED
    BY <2>1, <2>2 DEF Moved, Assignment, Source
<1>2. \E queries \in {UNION units : units \in SUBSET free}, e \in Engines :
         d = Moved(v, queries, e)
  BY DEF MovesOf
<1> QED
  BY <1>1, <1>2

(* No draft is not a version: it places queries nowhere.                   *)
LEMMA DraftWritten ==
  ASSUME NEW d \in Draft, d # NoDraft
  PROVE  d \in Assignment
  BY DEF Draft

(* The picks an assignment carries are engines.                            *)
LEMMA PicksType ==
  ASSUME NEW a \in Assignment
  PROVE  PicksOf(a) \in [Queries -> Engines \cup {NoEngine}]
  BY DEF PicksOf, Assignment

(***************************************************************************)
(* What a write, or none, means for everybody                              *)
(***************************************************************************)

(* A version written over an existing one, or as the next, from one before *)
(* it.                                                                     *)
LEMMA WriteKeepsStore ==
  ASSUME StoreOK, NEW v \in 1 .. Effective + 1, v <= MaxVersion,
         NEW a \in Assignment, a.prev < v, a.source # "resolved" => a.prev \in Versions,
         WriteAssignment(v, a), chosen' \in [Queries -> Engines \cup {NoEngine}]
  PROVE  StoreOK' /\ Versions \subseteq Versions' /\ Effective <= Effective'
<1>1. Effective \in Nat /\ LineageWellFormed
  BY DEF StoreOK
<1>2. /\ LineageWellFormed' /\ Effective' \in Nat
      /\ Effective' = IF v = NextVersion THEN v ELSE Effective
      /\ Versions \subseteq Versions'
  BY <1>1, WriteKeepsLineage
<1>3. Effective' \in 0 .. MaxVersion /\ Effective <= Effective'
  BY <1>1, <1>2, AssignmentAssumption DEF StoreOK, NextVersion
<1>4. Versions' \subseteq Version /\ \A w \in Versions' : asg'[w] \in Assignment
  BY <1>1, AssignmentAssumption DEF StoreOK, WriteAssignment, Put, Versions, Version
<1> QED
  BY <1>2, <1>3, <1>4 DEF StoreOK

(* No version written.                                                     *)
LEMMA NoWriteKeepsStore ==
  ASSUME StoreOK, UNCHANGED asg, chosen' \in [Queries -> Engines \cup {NoEngine}]
  PROVE  StoreOK' /\ Versions \subseteq Versions' /\ Effective <= Effective'
  BY AssignmentAssumption DEF StoreOK, LineageWellFormed, Effective, Versions

(* Those who did not step keep what they hold.                             *)
LEMMA GateHolds ==
  ASSUME GateOK, UNCHANGED gate, Versions \subseteq Versions'
  PROVE  GateOK'
  BY DEF GateOK

(* So do the reality checks.                                               *)
LEMMA CheckHolds ==
  ASSUME CheckOK, StoreOK, UNCHANGED <<rc, checks>>, Versions \subseteq Versions',
         Effective \in Int, Effective' \in Int, Effective <= Effective'
  PROVE  CheckOK'
<1>1. \A p \in CheckProcs : rc[p].wrote \in Int
  BY DEF CheckOK, CheckFrame
<1> QED
  BY <1>1 DEF CheckOK, Consolidates

(* And the assignment phases.                                              *)
LEMMA ResolverHolds ==
  ASSUME ResolverOK, UNCHANGED resolver,
         Effective \in Int, Effective' \in Int, Effective <= Effective'
  PROVE  ResolverOK'
  BY DEF ResolverOK

(* The same, for a step of the gate.                                       *)
LEMMA GateStepKeeps ==
  ASSUME FlowInv, UNCHANGED <<rcVars, resolver>>, StoreOK', GateOK', EditsOK',
         Versions \subseteq Versions', Effective <= Effective'
  PROVE  FlowInv'
<1>1. Effective \in Int /\ Effective' \in Int
  BY AssignmentAssumption DEF FlowInv, StoreOK
<1>2. CheckOK'
  BY <1>1, CheckHolds DEF FlowInv, rcVars
<1>3. RunsOK'
  BY DEF FlowInv, RunsOK, rcVars
<1>4. ResolverOK'
  BY <1>1, ResolverHolds DEF FlowInv
<1> QED
  BY <1>2, <1>3, <1>4 DEF FlowInv

(***************************************************************************)
(* The review gate                                                         *)
(***************************************************************************)

(* An idle frame, and one that only knows what was asked.                  *)
LEMMA GateIdleType ==
  ASSUME NEW op \in GateOp, NEW base \in 0 .. MaxVersion
  PROVE  /\ GateIdle \in GateFrame
         /\ [GateIdle EXCEPT !.op = op, !.base = base] \in GateFrame
<1>1. NoDraft \in Draft
  BY DEF Draft
<1>2. 0 \in 0 .. MaxVersion
  BY AssignmentAssumption
<1> QED
  BY <1>1, <1>2 DEF GateIdle, GateFrame, GateOp

(* What a call goes on with is a frame of the gate that holds no draft.    *)
LEMMA OnwardType ==
  ASSUME NEW frame \in GateFrame
  PROVE  Onward(frame) \in GateFrame /\ Onward(frame).pc \in {"idle", "edit"}
<1>1. frame.base \in 0 .. MaxVersion /\ 0 \in 0 .. MaxVersion
  BY AssignmentAssumption DEF GateFrame
<1>2. NoDraft \in Draft
  BY DEF Draft
<1> QED
  BY <1>1, <1>2 DEF Onward, GateFrame, GateIdle, GateOp

(* A frame that holds no draft may be entered at any time.                 *)
LEMMA GateEnters ==
  ASSUME GateOK, NEW self \in GateProcs, NEW frame \in GateFrame,
         frame.pc # "idle" => Versions # {},
         frame.pc \in {"reroute", "rewrite", "write"} =>
            /\ frame.input \in Versions
            /\ frame.draft \in Assignment
            /\ frame.draft.prev = frame.input,
         gate' = [gate EXCEPT ![self] = frame], Versions \subseteq Versions'
  PROVE  GateOK'
<1>1. gate' \in [GateProcs -> GateFrame]
  BY DEF GateOK
<1>2. ASSUME NEW q \in GateProcs, gate'[q].pc # "idle"
      PROVE  Versions' # {}
  BY <1>2 DEF GateOK
<1>3. ASSUME NEW q \in GateProcs, gate'[q].pc \in {"reroute", "rewrite", "write"}
      PROVE  /\ gate'[q].input \in Versions'
             /\ gate'[q].draft \in Assignment
             /\ gate'[q].draft.prev = gate'[q].input
  <2>1. CASE q = self
    BY <1>3, <2>1 DEF GateOK
  <2>2. CASE q # self
    BY <1>3, <2>2 DEF GateOK
  <2> QED
    BY <2>1, <2>2
<1> QED
  BY <1>1, <1>2, <1>3 DEF GateOK

(* A call that begins, and re-routes first where the writes are split.     *)
LEMMA GateBeginsKeeps ==
  ASSUME FlowInv, NEW self \in GateProcs, NEW op \in GateOp, NEW base \in 0 .. MaxVersion,
         Effective > 0, GateBegins(self, op, base), UNCHANGED <<rcVars, resolver>>, EditsOK'
  PROVE  FlowInv'
<1> DEFINE frame == [GateIdle EXCEPT !.op = op, !.base = base]
<1>1. StoreOK' /\ Versions \subseteq Versions' /\ Effective <= Effective' /\ Versions # {}
  <2>1. Versions # {}
    BY DEF Effective
  <2> QED
    BY <2>1, NoWriteKeepsStore DEF FlowInv, GateBegins, StoreOK
<1>2. frame \in GateFrame /\ frame.pc = "idle"
  BY GateIdleType DEF GateIdle
<1>3. CASE gate' = [gate EXCEPT ![self] = Onward(frame)]
  <2>1. Onward(frame) \in GateFrame /\ Onward(frame).pc \in {"idle", "edit"}
    BY <1>2, OnwardType
  <2>2. GateOK'
    BY <1>1, <1>3, <2>1, GateEnters DEF FlowInv
  <2> QED
    BY <1>1, <2>2, GateStepKeeps
<1>4. ASSUME NEW draft \in Rerouted(Effective),
             gate' = [gate EXCEPT ![self] =
                [frame EXCEPT !.pc = "reroute", !.input = Effective, !.draft = draft]]
      PROVE  FlowInv'
  <2>1. Effective \in Versions /\ Effective \in Version /\ Effective \in 0 .. MaxVersion
    BY AssignmentAssumption DEF FlowInv, StoreOK, LineageWellFormed, Version
  <2>2. draft \in Assignment /\ draft.prev = Effective
    BY <2>1, ReroutedType DEF FlowInv, StoreOK
  <2> DEFINE new == [frame EXCEPT !.pc = "reroute", !.input = Effective, !.draft = draft]
  <2>3. /\ new \in GateFrame /\ new.input = Effective /\ new.draft = draft
        /\ new.pc = "reroute"
    BY <1>2, <2>1, <2>2 DEF GateFrame, Draft
  <2>4. GateOK'
    <3> HIDE DEF new, frame
    <3> QED
      BY <1>1, <1>4, <2>1, <2>2, <2>3, GateEnters DEF FlowInv, new, frame
  <2> QED
    BY <1>1, <2>4, GateStepKeeps
<1> QED
  BY <1>3, <1>4 DEF GateBegins

(* Every step of a call at the gate.                                       *)
LEMMA GateKeepsInv ==
  ASSUME FlowInv, NEW p \in GateProcs, Gate(p), UNCHANGED <<rcVars, resolver>>
  PROVE  FlowInv'
<1>1. /\ 0 \in 0 .. MaxVersion /\ GateIdle \in GateFrame
      /\ "get" \in GateOp /\ "put" \in GateOp /\ "design" \in GateOp
  <2>1. 0 \in 0 .. MaxVersion /\ "get" \in GateOp /\ "put" \in GateOp /\ "design" \in GateOp
    BY AssignmentAssumption DEF GateOp
  <2> QED
    BY <2>1, GateIdleType
<1>2. gate[p] \in GateFrame /\ (gate[p].pc # "idle" => Versions # {})
  BY DEF FlowInv, GateOK
<1>3. EditsOK'
  <2>1. MaxEdits \in Nat /\ edits \in 0 .. MaxEdits
    BY FlowAssumption DEF FlowInv, EditsOK
  <2> QED
    BY <2>1 DEF Gate, EditsOK
<1>4. CASE PutAssignments(p) \/ GetAssignments(p) \/ StartDesign(p)
  <2>1. PICK op \in GateOp, base \in 0 .. MaxVersion : Effective > 0 /\ GateBegins(p, op, base)
    <3>1. \A base \in 0 .. Effective : base \in 0 .. MaxVersion
      BY AssignmentAssumption DEF FlowInv, StoreOK
    <3> QED
      BY <1>1, <1>4, <3>1 DEF PutAssignments, GetAssignments, StartDesign
  <2> QED
    BY <1>3, <2>1, GateBeginsKeeps
<1>5. CASE Reroute(p)
  <2>1. StoreOK' /\ Versions \subseteq Versions' /\ Effective <= Effective'
    BY <1>5, NoWriteKeepsStore DEF FlowInv, Reroute, StoreOK
  <2>2. GateOK'
    <3>1. CASE gate' = [gate EXCEPT ![p] = Onward(gate[p])]
      BY <1>2, <1>5, <2>1, <3>1, OnwardType, GateEnters DEF FlowInv, Reroute, InGate
    <3>2. CASE gate' = [gate EXCEPT ![p].pc = "rewrite"]
      BY <1>2, <1>5, <2>1, <3>2 DEF FlowInv, GateOK, GateFrame, Reroute, InGate
    <3> QED
      BY <1>5, <3>1, <3>2 DEF Reroute, GateGoesOn
  <2> QED
    BY <1>3, <2>1, <2>2, GateStepKeeps
<1>6. CASE Rewrite(p)
  <2>1. /\ gate[p].input \in Versions /\ gate[p].draft \in Assignment
        /\ gate[p].draft.prev = gate[p].input
    BY <1>6 DEF FlowInv, GateOK, Rewrite, InGate
  <2>2. chosen' \in [Queries -> Engines \cup {NoEngine}]
    BY <1>6 DEF FlowInv, StoreOK, Rewrite
  <2>3. gate[p].input \in 1 .. Effective /\ Effective \in Nat
    BY <2>1, AssignmentAssumption DEF FlowInv, StoreOK, LineageWellFormed
  <2>4. gate[p].input < MaxVersion /\ WriteAssignment(gate[p].input + 1, gate[p].draft)
    BY <1>6 DEF Rewrite
  <2>5. StoreOK' /\ Versions \subseteq Versions' /\ Effective <= Effective'
    BY <2>1, <2>2, <2>3, <2>4, AssignmentAssumption, WriteKeepsStore DEF FlowInv
  <2>6. GateOK'
    BY <1>2, <1>6, <2>5, OnwardType, GateEnters DEF FlowInv, Rewrite, InGate, GateGoesOn
  <2> QED
    BY <1>3, <2>5, <2>6, GateStepKeeps
<1>7. CASE Edit(p)
  <2>1. StoreOK' /\ Versions \subseteq Versions' /\ Effective <= Effective'
    BY <1>7, NoWriteKeepsStore DEF FlowInv, Edit, StoreOK
  <2>2. PICK draft \in Edits(Effective) :
           gate' = [gate EXCEPT ![p] =
              [gate[p] EXCEPT !.pc = "write", !.input = Effective, !.draft = draft]]
    BY <1>7 DEF Edit
  <2> DEFINE new == [gate[p] EXCEPT !.pc = "write", !.input = Effective, !.draft = draft]
  <2>3. Effective \in Versions
    BY <1>2, <1>7 DEF Edit, InGate, FlowInv, StoreOK, LineageWellFormed
  <2>4. draft \in Assignment /\ draft.prev = Effective
    BY <2>3, EditsType DEF FlowInv, StoreOK
  <2>5. /\ new \in GateFrame /\ new.input = Effective /\ new.draft = draft
    BY <1>2, <2>4 DEF FlowInv, StoreOK, GateFrame, Draft
  <2>6. GateOK'
    <3>1. gate' = [gate EXCEPT ![p] = new] /\ Versions # {}
      BY <2>2, <2>3
    <3>2. GateOK /\ new.input \in Versions /\ new.draft \in Assignment /\ new.draft.prev = new.input
      BY <2>3, <2>4, <2>5 DEF FlowInv
    <3> HIDE DEF new
    <3> QED
      BY <2>1, <2>5, <3>1, <3>2, GateEnters
  <2> QED
    BY <1>3, <2>1, <2>6, GateStepKeeps
<1>8. CASE WriteEdit(p)
  <2>1. /\ gate[p].input \in Versions /\ gate[p].draft \in Assignment
        /\ gate[p].draft.prev = gate[p].input
    BY <1>8 DEF FlowInv, GateOK, WriteEdit, InGate
  <2>2. chosen' \in [Queries -> Engines \cup {NoEngine}]
    BY <1>8, <2>1, PicksType DEF WriteEdit
  <2>3. gate[p].input \in 1 .. Effective /\ Effective \in Nat
    BY <2>1, AssignmentAssumption DEF FlowInv, StoreOK, LineageWellFormed
  <2>4. gate[p].input < MaxVersion /\ WriteAssignment(gate[p].input + 1, gate[p].draft)
    BY <1>8 DEF WriteEdit
  <2>5. StoreOK' /\ Versions \subseteq Versions' /\ Effective <= Effective'
    BY <2>1, <2>2, <2>3, <2>4, AssignmentAssumption, WriteKeepsStore DEF FlowInv
  <2>6. GateOK'
    BY <1>1, <1>8, <2>5, GateEnters DEF FlowInv, WriteEdit, GateEnd, GateIdle
  <2> QED
    BY <1>3, <2>5, <2>6, GateStepKeeps
<1>9. CASE GateStops(p)
  <2>1. StoreOK' /\ Versions \subseteq Versions' /\ Effective <= Effective'
    BY <1>9, NoWriteKeepsStore DEF FlowInv, GateStops, StoreOK
  <2>2. GateOK'
    BY <1>1, <1>9, <2>1, GateEnters DEF FlowInv, GateStops, GateEnd, GateIdle
  <2> QED
    BY <1>3, <2>1, <2>2, GateStepKeeps
<1> QED
  BY <1>4, <1>5, <1>6, <1>7, <1>8, <1>9 DEF Gate

(***************************************************************************)
(* The reality check                                                       *)
(***************************************************************************)

(* The same, for a step of a reality check.                                *)
LEMMA CheckStepKeeps ==
  ASSUME FlowInv, UNCHANGED <<gate, resolver, edits>>, StoreOK', CheckOK', RunsOK',
         Versions \subseteq Versions', Effective <= Effective'
  PROVE  FlowInv'
<1>1. Effective \in Int /\ Effective' \in Int
  BY AssignmentAssumption DEF FlowInv, StoreOK
<1>2. GateOK'
  BY GateHolds DEF FlowInv
<1>3. ResolverOK'
  BY <1>1, ResolverHolds DEF FlowInv
<1> QED
  BY <1>2, <1>3 DEF FlowInv, EditsOK

(* What a run that is under way may remember.                              *)
CheckFrameOK(frame, runs, versions, top) ==
    /\ frame \in CheckFrame
    /\ frame.pc # "idle" =>
          /\ frame.input \in versions
          /\ frame.run \in 1 .. runs
          /\ frame.draft # NoDraft => frame.draft.prev = frame.input
          /\ frame.wrote # 0 => /\ frame.draft # NoDraft
                                /\ frame.input < frame.wrote
                                /\ frame.wrote <= top + 1
          /\ frame.pc = "revise" => frame.wrote # 0

(* A run that takes a step leaves the others what they hold.               *)
LEMMA CheckEnters ==
  ASSUME FlowInv, NEW self \in CheckProcs, NEW frame,
         CheckFrameOK(frame, Len(checks'), Versions', Effective'),
         rc' = [rc EXCEPT ![self] = frame], Versions \subseteq Versions',
         Effective <= Effective', Effective' \in Int,
         Len(checks') \in Nat, Len(checks) <= Len(checks')
  PROVE  CheckOK'
<1>1. Effective \in Int /\ Len(checks) \in Nat
  BY AssignmentAssumption DEF FlowInv, StoreOK, RunsOK
<1>2. rc' \in [CheckProcs -> CheckFrame]
  BY DEF FlowInv, CheckOK, CheckFrameOK
<1>3. ASSUME NEW q \in CheckProcs
      PROVE  CheckFrameOK(rc'[q], Len(checks'), Versions', Effective')
  <2>1. CASE q = self
    BY <2>1 DEF FlowInv, CheckOK
  <2>2. CASE q # self
    <3>1. rc'[q] = rc[q] /\ rc[q] \in CheckFrame /\ rc[q].wrote \in Int /\ rc[q].run \in Int
      BY <2>2, AssignmentAssumption, CheckAssumption DEF FlowInv, CheckOK, CheckFrame
    <3> QED
      BY <1>1, <3>1 DEF FlowInv, CheckOK, CheckFrameOK, Consolidates
  <2> QED
    BY <2>1, <2>2
<1> QED
  BY <1>2, <1>3 DEF CheckOK, CheckFrameOK, Consolidates

(* What the invariant says of one run.                                     *)
LEMMA CheckFrames ==
  ASSUME FlowInv, NEW self \in CheckProcs
  PROVE  CheckFrameOK(rc[self], Len(checks), Versions, Effective)
  BY DEF FlowInv, CheckOK, CheckFrameOK, Consolidates

(* Keeping the completed run under its version.                            *)
LEMMA KeepCompletedType ==
  ASSUME RunsOK, KeepCompleted
  PROVE  DOMAIN rcRec' \subseteq Version /\ \A v \in DOMAIN rcRec' : rcRec'[v] \in RunId
<1>1. CASE rcRec' = rcRec
  BY <1>1 DEF RunsOK
<1>2. CASE Completed # NoOut /\ rcRec' = Put(rcRec, RecordVersion(Completed), Completed.run)
  <2>1. Completed \in Out /\ Completed # NoOut
    BY <1>2 DEF RunsOK, Completed, Out
  <2>2. Completed.run \in RunId /\ RecordVersion(Completed) \in Version
    BY <2>1 DEF Out, RecordVersion, Version
  <2> QED
    BY <1>2, <2>2 DEF RunsOK, Put
<1> QED
  BY <1>1, <1>2 DEF KeepCompleted

(* Another end, or another version written, of one run.                    *)
LEMMA RunEndsType ==
  ASSUME RunsOK, NEW self \in CheckProcs, rc[self].run \in 1 .. Len(checks),
         NEW how \in {"open", "done", "stopped", "broken"}, RunEnds(self, how)
  PROVE  checks' \in Seq(CheckRun) /\ Len(checks') = Len(checks)
<1>1. checks[rc[self].run] \in CheckRun
  BY DEF RunsOK
<1>2. [checks[rc[self].run] EXCEPT !.end = how] \in CheckRun
  BY <1>1 DEF CheckRun
<1> QED
  BY <1>2 DEF RunsOK, RunEnds

(* A run that starts.                                                      *)
LEMMA StartCheckKeeps ==
  ASSUME FlowInv, NEW p \in CheckProcs, NEW external \in BOOLEAN, StartCheck(p, external),
         UNCHANGED <<gate, resolver, edits>>
  PROVE  FlowInv'
<1>1. StoreOK' /\ Versions \subseteq Versions' /\ Effective <= Effective'
  BY NoWriteKeepsStore DEF FlowInv, StartCheck, StoreOK
<1> DEFINE frame(input, draft) ==
              [pc |-> IF external THEN "request" ELSE "keep", run |-> Len(checks) + 1,
               input |-> input, wrote |-> 0, draft |-> draft]
<1>0. PICK forced \in BOOLEAN, input \in Versions :
        /\ checks' = Append(checks, [forced |-> forced, external |-> external,
                                     input |-> input, wrote |-> 0, end |-> "open"])
        /\ \E draft \in {NoDraft} \cup Consolidated(input) :
              rc' = [rc EXCEPT ![p] = frame(input, draft)]
  BY DEF StartCheck
<1>2. PICK draft \in {NoDraft} \cup Consolidated(input) :
        rc' = [rc EXCEPT ![p] = frame(input, draft)]
  BY <1>0
<1>3. checks \in Seq(CheckRun) /\ Len(checks) \in Nat /\ Len(checks) < MaxChecks
  BY DEF FlowInv, RunsOK, StartCheck
<1>4. input \in Version /\ asg[input] \in Assignment /\ 0 \in 0 .. MaxVersion
  BY AssignmentAssumption DEF FlowInv, StoreOK
<1>5. checks' \in Seq(CheckRun) /\ Len(checks') = Len(checks) + 1
  <2>1. [forced |-> forced, external |-> external, input |-> input, wrote |-> 0,
         end |-> "open"] \in CheckRun
    BY <1>4 DEF CheckRun
  <2> QED
    BY <1>0, <1>3, <2>1
<1>6. RunsOK'
  <2>1. UNCHANGED <<rcOut, rcRec, rcMark>>
    BY DEF StartCheck
  <2> QED
    BY <1>3, <1>5, <2>1, CheckAssumption DEF FlowInv, RunsOK
<1>7. draft \in Draft /\ (draft # NoDraft => draft.prev = input)
  BY <1>4, MovesType DEF Consolidated, Draft
<1> DEFINE new == frame(input, draft)
<1>8. CheckFrameOK(new, Len(checks'), Versions', Effective')
  <2>1. Len(checks) + 1 \in 0 .. MaxChecks /\ input \in 0 .. MaxVersion
    BY <1>3, <1>4, CheckAssumption, AssignmentAssumption DEF Version
  <2>2. new \in CheckFrame
    BY <1>4, <1>7, <2>1 DEF CheckFrame
  <2> QED
    BY <1>1, <1>3, <1>5, <1>7, <2>2 DEF CheckFrameOK
<1>9. CheckOK'
  <2> HIDE DEF new
  <2>1. Effective' \in Int /\ Len(checks') \in Nat /\ Len(checks) <= Len(checks')
    BY <1>1, <1>3, <1>5, AssignmentAssumption DEF StoreOK
  <2> QED
    BY <1>1, <1>2, <1>8, <2>1, CheckEnters DEF new
<1> QED
  BY <1>1, <1>6, <1>9, CheckStepKeeps

(* A step of a run that writes no version.                                 *)
LEMMA QuietCheckStep ==
  ASSUME FlowInv, NEW p \in CheckProcs, UNCHANGED <<asg, chosen, gate, resolver, edits>>,
         NEW frame, rc' = [rc EXCEPT ![p] = frame],
         CheckFrameOK(frame, Len(checks), Versions, Effective),
         RunsOK', Len(checks') = Len(checks)
  PROVE  FlowInv'
<1>1. StoreOK' /\ Versions \subseteq Versions' /\ Effective <= Effective'
  BY NoWriteKeepsStore DEF FlowInv, StoreOK
<1>2. Versions' = Versions /\ Effective' = Effective
  BY DEF Versions, Effective
<1>3. Effective' \in Int /\ Len(checks') \in Nat /\ Len(checks) <= Len(checks')
  BY <1>1, AssignmentAssumption DEF StoreOK, FlowInv, RunsOK
<1>4. CheckOK'
  BY <1>1, <1>2, <1>3, CheckEnters
<1> QED
  BY <1>1, <1>4, CheckStepKeeps

(* An idle frame remembers nothing.                                        *)
LEMMA CheckIdleOK ==
  ASSUME NEW runs, NEW versions, NEW top
  PROVE  CheckFrameOK(CheckIdle, runs, versions, top)
<1>1. 0 \in 0 .. MaxVersion /\ 0 \in 0 .. MaxChecks /\ NoDraft \in Draft
  BY AssignmentAssumption, CheckAssumption DEF Draft
<1> QED
  BY <1>1 DEF CheckFrameOK, CheckIdle, CheckFrame

(* The number a run takes for its version is the next.                     *)
LEMMA NumberIsNext ==
  ASSUME FlowInv, NEW p \in CheckProcs, rc[p].input \in Versions
  PROVE  NumberToWrite(p) = IF Consolidates(p) THEN Effective + 1 ELSE 0
<1>1. Effective \in Nat /\ rc[p].input \in 1 .. Effective
  BY AssignmentAssumption DEF FlowInv, StoreOK, LineageWellFormed
<1>2. Max({NextVersion, rc[p].input + 1}) = Effective + 1
  <2>1. rc[p].input + 1 \in Int /\ NextVersion \in Int /\ NextVersion >= rc[p].input + 1
    BY <1>1 DEF NextVersion
  <2>2. Max({NextVersion, rc[p].input + 1}) = NextVersion
    BY <2>1, MaxOfTwo
  <2> QED
    BY <2>2 DEF NextVersion
<1> QED
  BY <1>2 DEF NumberToWrite

(* Every step of a reality check.                                          *)
LEMMA CheckKeepsInv ==
  ASSUME FlowInv, NEW p \in CheckProcs, Check(p), UNCHANGED <<gate, resolver, edits>>
  PROVE  FlowInv'
<1>1. CheckFrameOK(rc[p], Len(checks), Versions, Effective)
  BY CheckFrames
<1>2. rc[p] \in CheckFrame /\ RunsOK
  BY DEF FlowInv, CheckOK
<1>3. CASE RunCheck(p) \/ PrepareCheck(p)
  BY <1>3, StartCheckKeeps DEF RunCheck, PrepareCheck
<1>4. CASE Request(p)
  <2> DEFINE new == [rc[p] EXCEPT !.pc = "mark"]
  <2>1. CheckFrameOK(new, Len(checks), Versions, Effective)
    BY <1>1, <1>2, <1>4 DEF CheckFrameOK, CheckFrame, Request, InCheck
  <2>2. RunsOK'
    BY <1>2, <1>4, KeepCompletedType DEF Request, RunsOK
  <2>3. rc' = [rc EXCEPT ![p] = new] /\ UNCHANGED <<asg, chosen, checks>>
    BY <1>4 DEF Request, CheckGoto
  <2> QED
    BY <2>1, <2>2, <2>3, QuietCheckStep
<1>5. CASE MarkAwaiting(p)
  <2> DEFINE new == [rc[p] EXCEPT !.pc = "keep"]
  <2>1. CheckFrameOK(new, Len(checks), Versions, Effective)
    BY <1>1, <1>2, <1>5 DEF CheckFrameOK, CheckFrame, MarkAwaiting, InCheck
  <2>2. RunsOK'
    BY <1>2, <1>5 DEF MarkAwaiting, RunsOK
  <2>3. rc' = [rc EXCEPT ![p] = new] /\ UNCHANGED <<asg, chosen, checks>>
    BY <1>5 DEF MarkAwaiting, CheckGoto
  <2> QED
    BY <2>1, <2>2, <2>3, QuietCheckStep
<1>6. CASE Keep(p)
  <2>1. /\ rc[p].input \in Versions /\ rc[p].run \in 1 .. Len(checks)
        /\ rc[p].draft # NoDraft => rc[p].draft.prev = rc[p].input
        /\ Effective \in Nat /\ rc[p].input \in 1 .. Effective
    BY <1>1, <1>6, AssignmentAssumption
       DEF CheckFrameOK, Keep, InCheck, FlowInv, StoreOK, LineageWellFormed
  <2> DEFINE number == IF Consolidates(p) THEN Effective + 1 ELSE 0
             new == [rc[p] EXCEPT !.pc = "output", !.wrote = number]
  <2>2. NumberToWrite(p) = number
    BY <2>1, NumberIsNext
  <2>3. number \in 0 .. MaxVersion
    BY <1>6, <2>1, <2>2 DEF Keep
  <2>4. CheckFrameOK(new, Len(checks), Versions, Effective)
    <3>1. number # 0 => /\ rc[p].draft # NoDraft
                        /\ rc[p].input < number /\ number <= Effective + 1
      BY <2>1 DEF Consolidates
    <3>2. /\ new.pc = "output" /\ new.wrote = number /\ new.input = rc[p].input
          /\ new.run = rc[p].run /\ new.draft = rc[p].draft
      BY <1>2 DEF CheckFrame
    <3>3. new \in CheckFrame
      <4> HIDE DEF number
      <4> QED
        BY <1>2, <2>3 DEF CheckFrame
    <3> HIDE DEF new, number
    <3> QED
      BY <2>1, <3>1, <3>2, <3>3 DEF CheckFrameOK
  <2>5. checks' = [checks EXCEPT ![rc[p].run].wrote = number]
    BY <1>6, <2>2 DEF Keep
  <2>6. checks' \in Seq(CheckRun) /\ Len(checks') = Len(checks)
    <3> HIDE DEF number
    <3>1. checks[rc[p].run] \in CheckRun
      BY <1>2, <2>1 DEF RunsOK
    <3>2. [checks[rc[p].run] EXCEPT !.wrote = number] \in CheckRun
      BY <2>3, <3>1 DEF CheckRun
    <3> QED
      BY <1>2, <2>1, <2>5, <3>2 DEF RunsOK
  <2>7. RunsOK'
    BY <1>2, <1>6, <2>6, KeepCompletedType DEF Keep, RunsOK
  <2>8. rc' = [rc EXCEPT ![p] = new]
    BY <1>2, <1>6, <2>2 DEF Keep, FlowInv, CheckOK
  <2>9. UNCHANGED <<asg, chosen>>
    BY <1>6 DEF Keep
  <2> HIDE DEF new
  <2> QED
    BY <2>4, <2>6, <2>7, <2>8, <2>9, QuietCheckStep
<1>7. CASE Output(p)
  <2>1. rc[p].input \in Versions /\ rc[p].run \in 1 .. Len(checks)
    BY <1>1, <1>7 DEF CheckFrameOK, Output, InCheck
  <2>2. checks' \in Seq(CheckRun) /\ Len(checks') = Len(checks)
    <3>1. CASE rc[p].wrote = 0
      BY <1>2, <1>7, <2>1, <3>1, RunEndsType DEF Output
    <3>2. CASE rc[p].wrote # 0
      BY <1>2, <1>7, <3>2 DEF Output, RunsOK
    <3> QED
      BY <3>1, <3>2
  <2>3. RunsOK'
    <3>1. PICK consolidated \in IF MyRun(p).external THEN BOOLEAN ELSE {Consolidates(p)} :
             rcOut' = [run |-> rc[p].run, source |-> rc[p].input, wrote |-> rc[p].wrote,
                       consolidated |-> consolidated]
      BY <1>7 DEF Output
    <3>2. consolidated \in BOOLEAN
      BY <3>1 DEF Consolidates
    <3>3. rc[p].run \in RunId
      BY <1>2, <2>1, CheckAssumption DEF RunId, RunsOK
    <3>4. rc[p].input \in Version /\ rc[p].wrote \in 0 .. MaxVersion
      BY <1>2, <2>1 DEF FlowInv, StoreOK, CheckFrame
    <3>5. rcOut' \in Out
      BY <3>1, <3>2, <3>3, <3>4 DEF Out
    <3> QED
      BY <1>2, <1>7, <2>2, <3>5 DEF Output, RunsOK
  <2> DEFINE new == IF MyRun(p).external THEN CheckIdle ELSE [rc[p] EXCEPT !.pc = "record"]
  <2>4. CheckFrameOK(new, Len(checks), Versions, Effective)
    <3>1. CheckFrameOK([rc[p] EXCEPT !.pc = "record"], Len(checks), Versions, Effective)
      BY <1>1, <1>2, <1>7 DEF CheckFrameOK, CheckFrame, Output, InCheck
    <3> QED
      BY <3>1, CheckIdleOK
  <2>5. rc' = [rc EXCEPT ![p] = new] /\ UNCHANGED <<asg, chosen>>
    BY <1>7 DEF Output
  <2> HIDE DEF new
  <2> QED
    BY <2>2, <2>3, <2>4, <2>5, QuietCheckStep
<1>8. CASE RecordRun(p)
  <2> DEFINE new == [rc[p] EXCEPT !.pc = "settle"]
             key == IF rc[p].wrote # 0 THEN rc[p].wrote ELSE rc[p].input
  <2>1. CheckFrameOK(new, Len(checks), Versions, Effective)
    BY <1>1, <1>2, <1>8 DEF CheckFrameOK, CheckFrame, RecordRun, InCheck
  <2>2. key \in Version /\ rc[p].run \in RunId
    BY <1>1, <1>2, <1>8, AssignmentAssumption, CheckAssumption
       DEF CheckFrameOK, CheckFrame, RecordRun, InCheck, FlowInv, StoreOK, RunsOK, RunId, Version
  <2>3. RunsOK'
    <3> HIDE DEF key
    <3>1. rcRec' = IF key \in DOMAIN rcRec THEN rcRec ELSE Put(rcRec, key, rc[p].run)
      BY <1>8 DEF RecordRun, key
    <3> QED
      BY <1>2, <1>8, <2>2, <3>1 DEF RecordRun, RunsOK, Put
  <2>4. rc' = [rc EXCEPT ![p] = new] /\ UNCHANGED <<asg, chosen, checks>>
    BY <1>8 DEF RecordRun, CheckGoto
  <2> QED
    BY <2>1, <2>3, <2>4, QuietCheckStep
<1>9. CASE Settle(p)
  <2> DEFINE new == IF rc[p].wrote = 0 THEN CheckIdle ELSE [rc[p] EXCEPT !.pc = "revise"]
  <2>1. CheckFrameOK(new, Len(checks), Versions, Effective)
    <3>1. CASE rc[p].wrote # 0
      BY <1>1, <1>2, <1>9, <3>1 DEF CheckFrameOK, CheckFrame, Settle, InCheck
    <3> QED
      BY <3>1, CheckIdleOK
  <2>2. RunsOK'
    BY <1>2, <1>9 DEF Settle, RunsOK
  <2>3. rc' = [rc EXCEPT ![p] = new] /\ UNCHANGED <<asg, chosen, checks>>
    BY <1>9 DEF Settle, CheckGoto, CheckEnd
  <2> HIDE DEF new
  <2> QED
    BY <2>1, <2>2, <2>3, QuietCheckStep
<1>10. CASE Revise(p)
  <2>1. /\ rc[p].input \in Versions /\ rc[p].run \in 1 .. Len(checks)
        /\ rc[p].draft # NoDraft /\ rc[p].draft.prev = rc[p].input
        /\ rc[p].input < rc[p].wrote /\ rc[p].wrote <= Effective + 1
    BY <1>1, <1>10 DEF CheckFrameOK, Revise, InCheck
  <2>2. rc[p].draft \in Assignment /\ rc[p].wrote \in 0 .. MaxVersion
    BY <1>2, <2>1, DraftWritten DEF CheckFrame
  <2>3. Effective \in Nat /\ rc[p].input \in 1 .. Effective
    BY <2>1, AssignmentAssumption DEF FlowInv, StoreOK, LineageWellFormed
  <2>4. chosen' \in [Queries -> Engines \cup {NoEngine}]
    BY <1>10, <2>2, PicksType DEF Revise, FlowInv, StoreOK
  <2>5. WriteAssignment(rc[p].wrote, rc[p].draft)
    BY <1>10 DEF Revise
  <2>6. StoreOK' /\ Versions \subseteq Versions' /\ Effective <= Effective'
    BY <2>1, <2>2, <2>3, <2>4, <2>5, AssignmentAssumption, WriteKeepsStore DEF FlowInv
  <2>7. checks' \in Seq(CheckRun) /\ Len(checks') = Len(checks)
    BY <1>2, <1>10, <2>1, RunEndsType DEF Revise
  <2>8. RunsOK'
    BY <1>2, <1>10, <2>7 DEF Revise, RunsOK
  <2>9. CheckOK'
    <3>1. rc' = [rc EXCEPT ![p] = CheckIdle]
      BY <1>10 DEF Revise, CheckEnd
    <3>2. Effective' \in Int /\ Len(checks') \in Nat /\ Len(checks) <= Len(checks')
      BY <2>6, <2>7, AssignmentAssumption DEF StoreOK
    <3> QED
      BY <2>6, <3>1, <3>2, CheckIdleOK, CheckEnters
  <2> QED
    BY <2>6, <2>8, <2>9, CheckStepKeeps
<1>11. CASE CheckStops(p)
  <2>1. rc[p].run \in 1 .. Len(checks)
    BY <1>1, <1>11 DEF CheckFrameOK, CheckStops, InCheck
  <2>2. UNCHANGED checks \/ RunEnds(p, "broken") \/ RunEnds(p, "stopped")
    BY <1>11 DEF CheckStops
  <2>3. checks' \in Seq(CheckRun) /\ Len(checks') = Len(checks)
    BY <1>2, <2>1, <2>2, RunEndsType DEF RunsOK
  <2>4. RunsOK'
    BY <1>2, <1>11, <2>3 DEF CheckStops, RunsOK
  <2>5. rc' = [rc EXCEPT ![p] = CheckIdle] /\ UNCHANGED <<asg, chosen>>
    BY <1>11 DEF CheckStops, CheckEnd
  <2> QED
    BY <2>3, <2>4, <2>5, CheckIdleOK, QuietCheckStep
<1> QED
  BY <1>3, <1>4, <1>5, <1>6, <1>7, <1>8, <1>9, <1>10, <1>11 DEF Check

(***************************************************************************)
(* The assignment phase                                                    *)
(***************************************************************************)

(* Every step of an assignment phase.                                      *)
LEMMA ResolveKeepsInv ==
  ASSUME FlowInv, NEW p \in Resolvers, Resolve(p), UNCHANGED <<gate, rcVars>>
  PROVE  FlowInv'
<1>1. /\ StoreOK' /\ Versions \subseteq Versions' /\ Effective <= Effective'
      /\ Effective \in Nat /\ Effective' \in Nat /\ ResolverOK'
  <2>1. /\ Effective \in Nat /\ resolver \in [Resolvers -> 0 .. MaxVersion]
        /\ \A q \in Resolvers : resolver[q] <= Effective + 1
    BY AssignmentAssumption DEF FlowInv, StoreOK, ResolverOK
  <2>2. CASE StartResolver(p) \/ ResolverStops(p)
    <3>1. StoreOK' /\ Versions \subseteq Versions' /\ Effective' = Effective
      BY <2>2, NoWriteKeepsStore
         DEF FlowInv, StartResolver, ResolverStops, StoreOK, Effective, Versions
    <3> QED
      BY <2>1, <2>2, <3>1, AssignmentAssumption
         DEF StartResolver, ResolverStops, ResolverOK, NextVersion
  <2>3. CASE WriteResolution(p)
    <3>1. PICK owner \in [Queries -> Engines] : WriteAssignment(resolver[p], Resolution(owner))
      BY <2>3 DEF WriteResolution
    <3>2. /\ Resolution(owner) \in Assignment /\ Resolution(owner).source = "resolved"
          /\ Resolution(owner).prev = 0
      BY AssignmentAssumption DEF Resolution, Assignment, Source
    <3>3. resolver[p] \in 1 .. Effective + 1 /\ resolver[p] <= MaxVersion
      BY <2>1, <2>3, AssignmentAssumption DEF WriteResolution
    <3>4. chosen' \in [Queries -> Engines \cup {NoEngine}]
      BY <2>3 DEF WriteResolution, NothingChosen
    <3>5. StoreOK' /\ Versions \subseteq Versions' /\ Effective <= Effective'
      BY <3>1, <3>2, <3>3, <3>4, WriteKeepsStore DEF FlowInv
    <3>6. Effective' \in Nat
      BY <3>5, AssignmentAssumption DEF StoreOK
    <3> QED
      BY <2>1, <2>3, <3>5, <3>6, AssignmentAssumption DEF WriteResolution, ResolverOK
  <2> QED
    BY <2>2, <2>3 DEF Resolve
<1>2. EditsOK'
  <2>1. MaxEdits \in Nat /\ edits \in 0 .. MaxEdits
    BY FlowAssumption DEF FlowInv, EditsOK
  <2> QED
    BY <2>1 DEF Resolve, EditsOK
<1>3. GateOK'
  BY <1>1, GateHolds DEF FlowInv
<1>4. CheckOK'
  BY <1>1, CheckHolds DEF FlowInv, rcVars
<1>5. RunsOK'
  BY DEF FlowInv, RunsOK, rcVars
<1> QED
  BY <1>1, <1>2, <1>3, <1>4, <1>5 DEF FlowInv

(***************************************************************************)
(* The theorems                                                            *)
(***************************************************************************)

(* The jobs the program finds.                                             *)
LEMMA InitEstablishes == Init => FlowInv
<1> SUFFICES ASSUME Init PROVE FlowInv
  OBVIOUS
<1>1. 0 \in 0 .. MaxVersion /\ 0 \in 0 .. MaxChecks /\ 0 \in 0 .. MaxEdits /\ NoDraft \in Draft
  BY AssignmentAssumption, CheckAssumption, FlowAssumption DEF Draft
<1>2. PICK saved \in SavedVersions :
        /\ Len(saved) <= MaxVersion
        /\ asg = [v \in 1 .. Len(saved) |-> saved[v]]
        /\ chosen = IF saved = <<>> THEN NothingChosen ELSE PicksOf(saved[Len(saved)])
  BY DEF Init
<1>3. StoreOK
  <2>1. CASE saved = <<>>
    <3>1. Versions = 1 .. 0
      BY <1>2, <2>1 DEF Versions
    <3>2. Effective = 0
      BY <3>1 DEF Effective
    <3> QED
      BY <1>2, <2>1, <3>1, <3>2, AssignmentAssumption DEF StoreOK, LineageWellFormed, NothingChosen
  <2>2. CASE \E owner \in [Queries -> Engines] : saved = <<Resolution(owner)>>
    <3>1. PICK owner \in [Queries -> Engines] : saved = <<Resolution(owner)>>
      BY <2>2
    <3>2. Resolution(owner) \in Assignment
      BY AssignmentAssumption DEF Resolution, Assignment, Source
    <3>3. Versions = 1 .. 1 /\ asg[1] = Resolution(owner) /\ 1 <= MaxVersion
      BY <1>2, <3>1 DEF Versions
    <3>4. Effective = 1
      BY <3>3, TopOfNumbered DEF Effective
    <3>5. chosen \in [Queries -> Engines \cup {NoEngine}]
      BY <1>2, <3>1, <3>2, PicksType
    <3> QED
      BY <3>2, <3>3, <3>4, <3>5, AssignmentAssumption
         DEF StoreOK, LineageWellFormed, Version, Resolution
  <2>3. CASE \E owner \in [Queries -> Engines] :
               saved = <<Resolution(owner),
                         [source |-> "customer_gate", prev |-> 1, owner |-> owner,
                          pinned |-> WriteGroup]>>
    <3>1. PICK owner \in [Queries -> Engines] :
               saved = <<Resolution(owner),
                         [source |-> "customer_gate", prev |-> 1, owner |-> owner,
                          pinned |-> WriteGroup]>>
      BY <2>3
    <3> DEFINE second == [source |-> "customer_gate", prev |-> 1, owner |-> owner,
                          pinned |-> WriteGroup]
    <3>2. Versions = 1 .. 2 /\ asg[1] = Resolution(owner) /\ asg[2] = second /\ 2 <= MaxVersion
      BY <1>2, <3>1 DEF Versions
    <3>3. Resolution(owner) \in Assignment /\ second \in Assignment
      BY <3>2, AssignmentAssumption DEF Resolution, Assignment, Source
    <3>4. Effective = 2
      BY <3>2, TopOfNumbered DEF Effective
    <3>5. chosen \in [Queries -> Engines \cup {NoEngine}]
      BY <1>2, <3>1, <3>3, PicksType
    <3> QED
      BY <3>2, <3>3, <3>4, <3>5, AssignmentAssumption
         DEF StoreOK, LineageWellFormed, Version, Resolution
  <2>4. \/ saved = <<>>
        \/ \E owner \in [Queries -> Engines] : saved = <<Resolution(owner)>>
        \/ \E owner \in [Queries -> Engines] :
               saved = <<Resolution(owner),
                         [source |-> "customer_gate", prev |-> 1, owner |-> owner,
                          pinned |-> WriteGroup]>>
    BY DEF SavedVersions
  <2> QED
    BY <2>1, <2>2, <2>3, <2>4
<1>4. GateOK
  <2>1. GateIdle \in GateFrame /\ GateIdle.pc = "idle"
    BY <1>1 DEF GateIdle, GateFrame, GateOp
  <2> QED
    BY <2>1 DEF Init, GateOK
<1>5. CheckOK
  <2>1. CheckIdle \in CheckFrame /\ CheckIdle.pc = "idle"
    BY <1>1 DEF CheckIdle, CheckFrame
  <2> QED
    BY <2>1 DEF Init, CheckOK
<1>6. RunsOK
  BY CheckAssumption DEF Init, RunsOK, Out
<1>7. ResolverOK /\ EditsOK
  BY <1>1, <1>3, AssignmentAssumption DEF Init, ResolverOK, EditsOK, StoreOK
<1> QED
  BY <1>3, <1>4, <1>5, <1>6, <1>7 DEF FlowInv

(* The invariant holds of every step, whoever takes it.                    *)
LEMMA NextKeepsInv == FlowInv /\ [Next]_flowVars => FlowInv'
<1> SUFFICES ASSUME FlowInv, [Next]_flowVars PROVE FlowInv'
  OBVIOUS
<1>1. CASE Next
  BY <1>1, GateKeepsInv, CheckKeepsInv, ResolveKeepsInv DEF Next
<1>2. CASE UNCHANGED flowVars
  <2>1. StoreOK' /\ Versions \subseteq Versions' /\ Effective <= Effective'
    BY <1>2, NoWriteKeepsStore DEF FlowInv, flowVars, StoreOK
  <2>2. GateOK' /\ EditsOK'
    BY <1>2, <2>1, GateHolds DEF FlowInv, flowVars, EditsOK
  <2> QED
    BY <1>2, <2>1, <2>2, GateStepKeeps DEF flowVars
<1> QED
  BY <1>1, <1>2

(* The invariant holds of every behaviour.                                 *)
LEMMA FlowInvariant == Spec => []FlowInv
  BY InitEstablishes, NextKeepsInv, PTL DEF Spec

(* Versions and the memory of every call are well formed, however the      *)
(* calls overlap and wherever they are stopped.                            *)
THEOREM Typing == Spec => []FlowTypeOK
<1>1. FlowInv => FlowTypeOK
  BY DEF FlowInv, StoreOK, GateOK, CheckOK, RunsOK, ResolverOK, EditsOK, FlowTypeOK
<1> QED
  BY <1>1, FlowInvariant, PTL

(* However many writers overlap, and although they may overwrite each      *)
(* other's versions, the numbers have no gap and every version comes after *)
(* the one it was made from: the walk of assignment_versioning._lineage    *)
(* always ends at a resolution or a consolidation.                         *)
THEOREM Lineages == Spec => []LineageWellFormed
<1>1. FlowInv => LineageWellFormed
  BY DEF FlowInv, StoreOK
<1> QED
  BY <1>1, FlowInvariant, PTL

-----------------------------------------------------------------------------

(***************************************************************************)
(* What holds of AssignmentFlow when a call starts only once the one       *)
(* before it is over or was stopped: no version is overwritten, a preview  *)
(* of the reality check never counts as a run, and an edit is applied to   *)
(* what its page showed.  Any number of processes and of calls, each       *)
(* stopped at any step.                                                    *)
(***************************************************************************)

(***************************************************************************)
(* The inductive invariant, next to FlowInv                                *)
(***************************************************************************)

GateBusy(p) == gate[p].pc # "idle"
CheckBusy(p) == rc[p].pc # "idle"
ResolverBusy(p) == resolver[p] # 0

OneCall ==
    /\ \A p, q \in GateProcs : GateBusy(p) /\ GateBusy(q) => p = q
    /\ \A p, q \in CheckProcs : CheckBusy(p) /\ CheckBusy(q) => p = q
    /\ \A p, q \in Resolvers : ResolverBusy(p) /\ ResolverBusy(q) => p = q
    /\ \A p \in GateProcs, q \in CheckProcs : ~(GateBusy(p) /\ CheckBusy(q))
    /\ \A p \in GateProcs, q \in Resolvers : ~(GateBusy(p) /\ ResolverBusy(q))
    /\ \A p \in CheckProcs, q \in Resolvers : ~(CheckBusy(p) /\ ResolverBusy(q))

(* A PUT that says which version it edits still finds it, or its           *)
(* re-routing, in force.                                                   *)
EditsTheSeen(base, version, a) ==
    base \in {0, version} \/ (a.source = "source_of_truth_reroute" /\ a.prev = base)

GateCurrent ==
    \A p \in GateProcs :
       /\ gate[p].pc \in {"reroute", "rewrite", "write"} => gate[p].input = Effective
       /\ gate[p].pc \in {"reroute", "rewrite"} =>
             /\ gate[p].base \in {0, Effective}
             /\ gate[p].draft.source = "source_of_truth_reroute"
       /\ gate[p].pc \in {"edit", "write"} => EditsTheSeen(gate[p].base, Effective, asg[Effective])

CheckCurrent ==
    \A p \in CheckProcs : CheckBusy(p) /\ rc[p].wrote # 0 => rc[p].wrote = Effective + 1

ResolverCurrent ==
    \A p \in Resolvers : ResolverBusy(p) => resolver[p] = Effective + 1

(* The marker is there before the preview it hides is written, and gone    *)
(* only once a real run's output has replaced it.                          *)
PreviewHidden ==
    /\ rcOut # NoOut => /\ rcOut.run \in 1 .. Len(checks)
                        /\ checks[rcOut.run].external => rcMark = "awaiting"
    /\ \A p \in CheckProcs :
          /\ rc[p].pc \in {"keep", "output"} =>
                (MyRun(p).external => rcMark = "awaiting")
          /\ rc[p].pc \in {"record", "settle"} =>
                ~MyRun(p).external /\ rcOut # NoOut /\ rcOut.run = rc[p].run

SequentialInv ==
    OneCall /\ GateCurrent /\ CheckCurrent /\ ResolverCurrent /\ PreviewHidden

(***************************************************************************)
(* One call at a time                                                      *)
(***************************************************************************)

(* A call starts alone.                                                    *)
LEMMA StartsAlone ==
  ASSUME ~Overlap, FlowInv, Alone
  PROVE  /\ \A p \in GateProcs : ~GateBusy(p)
         /\ \A p \in CheckProcs : ~CheckBusy(p)
         /\ \A p \in Resolvers : ~ResolverBusy(p)
  BY DEF Alone, GateBusy, CheckBusy, ResolverBusy, InGate, InCheck

(* A step changes the memory of its own process, which had started or      *)
(* starts alone.                                                           *)
LEMMA GateStepsOne ==
  ASSUME ~Overlap, FlowInv, NEW p \in GateProcs, Gate(p)
  PROVE  /\ \A q \in GateProcs : q # p => gate'[q] = gate[q]
         /\ Alone \/ GateBusy(p)
<1>1. gate \in [GateProcs -> GateFrame]
  BY DEF FlowInv, GateOK
<1>2. \E frame : gate' = [gate EXCEPT ![p] = frame]
  <2>1. CASE PutAssignments(p) \/ GetAssignments(p) \/ StartDesign(p)
    BY <2>1 DEF PutAssignments, GetAssignments, StartDesign, GateBegins
  <2>2. CASE Reroute(p) \/ Rewrite(p) \/ WriteEdit(p) \/ GateStops(p)
    BY <2>2 DEF Reroute, Rewrite, WriteEdit, GateStops, GateGoesOn, GateEnd
  <2>3. CASE Edit(p)
    BY <2>3 DEF Edit
  <2> QED
    BY <2>1, <2>2, <2>3 DEF Gate
<1>3. Alone \/ GateBusy(p)
  BY DEF Gate, Reroute, Rewrite, Edit, WriteEdit, GateStops, InGate, GateBusy
<1> QED
  BY <1>1, <1>2, <1>3

(* So does a step of a reality check.                                      *)
LEMMA CheckStepsOne ==
  ASSUME ~Overlap, FlowInv, NEW p \in CheckProcs, Check(p)
  PROVE  /\ \A q \in CheckProcs : q # p => rc'[q] = rc[q]
         /\ Alone \/ CheckBusy(p)
<1>1. rc \in [CheckProcs -> CheckFrame]
  BY DEF FlowInv, CheckOK
<1>2. \E frame : rc' = [rc EXCEPT ![p] = frame]
  <2>1. CASE RunCheck(p) \/ PrepareCheck(p)
    BY <2>1 DEF RunCheck, PrepareCheck, StartCheck
  <2>2. CASE Request(p) \/ MarkAwaiting(p) \/ RecordRun(p)
    BY <2>2 DEF Request, MarkAwaiting, RecordRun, CheckGoto
  <2>3. CASE Keep(p)
    <3>1. rc' = [rc EXCEPT ![p] = [rc[p] EXCEPT !.pc = "output", !.wrote = NumberToWrite(p)]]
      BY <1>1, <2>3 DEF Keep
    <3> QED
      BY <3>1
  <2>4. CASE Output(p)
    BY <2>4 DEF Output
  <2>5. CASE Settle(p) \/ Revise(p) \/ CheckStops(p)
    BY <2>5 DEF Settle, Revise, CheckStops, CheckGoto, CheckEnd
  <2> QED
    BY <2>1, <2>2, <2>3, <2>4, <2>5 DEF Check
<1>3. Alone \/ CheckBusy(p)
  BY DEF Check, Request, MarkAwaiting, Keep, Output, RecordRun, Settle, Revise, CheckStops,
         InCheck, CheckBusy
<1> QED
  BY <1>1, <1>2, <1>3

(* And of an assignment phase.                                             *)
LEMMA ResolverStepsOne ==
  ASSUME ~Overlap, FlowInv, NEW p \in Resolvers, Resolve(p)
  PROVE  /\ \A q \in Resolvers : q # p => resolver'[q] = resolver[q]
         /\ Alone \/ ResolverBusy(p)
<1>1. resolver \in [Resolvers -> 0 .. MaxVersion]
  BY DEF FlowInv, ResolverOK
<1>2. \E v : resolver' = [resolver EXCEPT ![p] = v]
  BY DEF Resolve, StartResolver, WriteResolution, ResolverStops
<1>3. Alone \/ ResolverBusy(p)
  BY DEF Resolve, WriteResolution, ResolverStops, ResolverBusy
<1> QED
  BY <1>1, <1>2, <1>3

(* Nobody else is under way while a process steps.                         *)
LEMMA StepsAlone ==
  ASSUME ~Overlap, FlowInv, OneCall
  PROVE  /\ \A p \in GateProcs : Gate(p) =>
               /\ \A q \in GateProcs : q # p => ~GateBusy(q)
               /\ \A q \in CheckProcs : ~CheckBusy(q)
               /\ \A q \in Resolvers : ~ResolverBusy(q)
         /\ \A p \in CheckProcs : Check(p) =>
               /\ \A q \in CheckProcs : q # p => ~CheckBusy(q)
               /\ \A q \in GateProcs : ~GateBusy(q)
               /\ \A q \in Resolvers : ~ResolverBusy(q)
         /\ \A p \in Resolvers : Resolve(p) =>
               /\ \A q \in Resolvers : q # p => ~ResolverBusy(q)
               /\ \A q \in GateProcs : ~GateBusy(q)
               /\ \A q \in CheckProcs : ~CheckBusy(q)
  BY GateStepsOne, CheckStepsOne, ResolverStepsOne, StartsAlone DEF OneCall

(* So there is one call at a time.                                         *)
LEMMA OneCallKept ==
  ASSUME ~Overlap, FlowInv, OneCall, Next
  PROVE  OneCall'
<1>1. ASSUME NEW p \in GateProcs, Gate(p), UNCHANGED <<rcVars, resolver>>
      PROVE  OneCall'
  <2>1. \A q \in GateProcs : q # p => ~GateBusy(q)'
    BY <1>1, StepsAlone, GateStepsOne DEF GateBusy
  <2> QED
    BY <1>1, <2>1, StepsAlone DEF OneCall, CheckBusy, ResolverBusy, rcVars
<1>2. ASSUME NEW p \in CheckProcs, Check(p), UNCHANGED <<gate, resolver, edits>>
      PROVE  OneCall'
  <2>1. \A q \in CheckProcs : q # p => ~CheckBusy(q)'
    BY <1>2, StepsAlone, CheckStepsOne DEF CheckBusy
  <2> QED
    BY <1>2, <2>1, StepsAlone DEF OneCall, GateBusy, ResolverBusy
<1>3. ASSUME NEW p \in Resolvers, Resolve(p), UNCHANGED <<gate, rcVars>>
      PROVE  OneCall'
  <2>1. \A q \in Resolvers : q # p => ~ResolverBusy(q)'
    BY <1>3, StepsAlone, ResolverStepsOne DEF ResolverBusy
  <2> QED
    BY <1>3, <2>1, StepsAlone DEF OneCall, GateBusy, CheckBusy, rcVars
<1> QED
  BY <1>1, <1>2, <1>3 DEF Next

(***************************************************************************)
(* The three kinds of calls                                                *)
(***************************************************************************)

Appends == \A v \in Versions : v \in DOMAIN asg' /\ asg'[v] = asg[v]

(* A version written as the next one adds to the others and is in force.   *)
LEMMA WriteNextAppends ==
  ASSUME FlowInv, NEW a, WriteAssignment(Effective + 1, a),
         a.prev < Effective + 1, a.source # "resolved" => a.prev \in Versions
  PROVE  Appends /\ Effective' = Effective + 1 /\ asg'[Effective + 1] = a
<1>1. Effective \in Nat /\ LineageWellFormed
  BY AssignmentAssumption DEF FlowInv, StoreOK
<1>2. Effective' = Effective + 1
  BY <1>1, WriteKeepsLineage DEF NextVersion
<1>3. Effective + 1 \notin Versions
  BY <1>1 DEF LineageWellFormed
<1> QED
  BY <1>2, <1>3 DEF Appends, WriteAssignment, Put, Versions

(* Nothing is in force but what was.                                       *)
LEMMA NoWriteAppends ==
  ASSUME UNCHANGED asg
  PROVE  Appends /\ Effective' = Effective
  BY DEF Appends, Effective, Versions

(* The gate writes the version after the one it read, which is still in    *)
(* force, and edits what its page showed.                                  *)
LEMMA GateSequential ==
  ASSUME ~Overlap, FlowInv, SequentialInv, NEW p \in GateProcs, Gate(p),
         UNCHANGED <<rcVars, resolver>>
  PROVE  Appends /\ GateCurrent' /\ CheckCurrent' /\ ResolverCurrent' /\ PreviewHidden'
<1>1. CheckCurrent' /\ ResolverCurrent'
  BY StepsAlone
     DEF SequentialInv, CheckCurrent, ResolverCurrent, CheckBusy, ResolverBusy, rcVars
<1>2. PreviewHidden'
  BY DEF SequentialInv, PreviewHidden, MyRun, rcVars
<1>3. gate \in [GateProcs -> GateFrame] /\ gate[p] \in GateFrame /\ Effective \in Nat
  BY AssignmentAssumption DEF FlowInv, StoreOK, GateOK
<1>4. ASSUME NEW frame, gate' = [gate EXCEPT ![p] = frame],
             frame.pc \in {"reroute", "rewrite", "write"} => frame.input = Effective',
             frame.pc \in {"reroute", "rewrite"} =>
                /\ frame.base \in {0, Effective'}
                /\ frame.draft.source = "source_of_truth_reroute",
             frame.pc \in {"edit", "write"} => EditsTheSeen(frame.base, Effective', asg'[Effective'])
      PROVE  GateCurrent'
  <2>1. gate'[p] = frame
    BY <1>3, <1>4
  <2>2. \A q \in GateProcs : q # p => gate'[q].pc = "idle"
    BY <1>3, <1>4, StepsAlone DEF SequentialInv, GateBusy
  <2> QED
    BY <1>4, <2>1, <2>2 DEF GateCurrent, EditsTheSeen
<1>5. CASE PutAssignments(p) \/ GetAssignments(p) \/ StartDesign(p)
  <2>1. PICK op \in GateOp, base \in {0, Effective} : GateBegins(p, op, base)
    BY <1>5 DEF PutAssignments, GetAssignments, StartDesign, GateOp
  <2>2. Appends /\ Effective' = Effective /\ asg' = asg
    BY <2>1, NoWriteAppends DEF GateBegins
  <2> DEFINE frame == [GateIdle EXCEPT !.op = op, !.base = base]
  <2>3. CASE gate' = [gate EXCEPT ![p] = Onward(frame)]
    <3>1. /\ Onward(frame).pc \in {"idle", "edit"}
          /\ Onward(frame).pc = "edit" => Onward(frame).base = base
      BY DEF Onward, GateIdle
    <3>2. Onward(frame).pc = "edit" => EditsTheSeen(Onward(frame).base, Effective', asg'[Effective'])
      BY <2>2, <3>1 DEF EditsTheSeen
    <3> HIDE DEF frame
    <3> QED
      BY <1>1, <1>2, <1>4, <2>2, <2>3, <3>1, <3>2
  <2>4. ASSUME NEW draft \in Rerouted(Effective),
               gate' = [gate EXCEPT ![p] =
                  [frame EXCEPT !.pc = "reroute", !.input = Effective, !.draft = draft]]
        PROVE  GateCurrent'
    <3> DEFINE new == [frame EXCEPT !.pc = "reroute", !.input = Effective, !.draft = draft]
    <3>1. draft.source = "source_of_truth_reroute"
      BY DEF Rerouted, ReroutedTo
    <3>2. new.pc = "reroute" /\ new.input = Effective /\ new.base = base /\ new.draft = draft
      BY DEF GateIdle
    <3>3. gate' = [gate EXCEPT ![p] = new]
      BY <2>4
    <3> HIDE DEF new
    <3> QED
      BY <1>4, <2>2, <3>1, <3>2, <3>3
  <2> QED
    BY <1>1, <1>2, <2>1, <2>2, <2>3, <2>4 DEF GateBegins
<1>6. CASE Reroute(p)
  <2>1. /\ gate[p].pc = "reroute" /\ gate[p].input = Effective /\ asg' = asg
        /\ gate[p].base \in {0, Effective}
        /\ gate[p].draft.source = "source_of_truth_reroute"
    BY <1>6 DEF Reroute, InGate, SequentialInv, GateCurrent
  <2>2. Appends /\ Effective' = Effective
    BY <2>1, NoWriteAppends
  <2>3. gate' = [gate EXCEPT ![p].pc = "rewrite"]
    <3>1. Effective + 1 \notin Versions
      BY <1>3 DEF FlowInv, StoreOK, LineageWellFormed
    <3> QED
      BY <1>6, <2>1, <3>1 DEF Reroute
  <2> DEFINE new == [gate[p] EXCEPT !.pc = "rewrite"]
  <2>4. /\ new.pc = "rewrite" /\ new.input = gate[p].input /\ new.base = gate[p].base
        /\ new.draft = gate[p].draft
    BY <1>3 DEF GateFrame
  <2>5. gate' = [gate EXCEPT ![p] = new]
    BY <2>3
  <2> HIDE DEF new
  <2> QED
    BY <1>1, <1>2, <1>4, <2>1, <2>2, <2>4, <2>5
<1>7. CASE Rewrite(p)
  <2>1. /\ gate[p].pc = "rewrite" /\ gate[p].input = Effective
        /\ gate[p].base \in {0, Effective}
        /\ gate[p].draft.source = "source_of_truth_reroute"
        /\ gate[p].draft.prev = Effective /\ Effective \in Versions
    BY <1>7 DEF Rewrite, InGate, SequentialInv, GateCurrent, FlowInv, GateOK
  <2>2. WriteAssignment(Effective + 1, gate[p].draft)
    BY <1>7, <2>1 DEF Rewrite
  <2>3. /\ Appends /\ Effective' = Effective + 1 /\ asg'[Effective'] = gate[p].draft
    BY <1>3, <2>1, <2>2, WriteNextAppends
  <2>4. gate' = [gate EXCEPT ![p] = Onward(gate[p])]
    BY <1>7 DEF Rewrite, GateGoesOn
  <2>5. /\ Onward(gate[p]).pc \in {"idle", "edit"}
        /\ Onward(gate[p]).pc = "edit" => Onward(gate[p]).base = gate[p].base
    BY DEF Onward, GateIdle
  <2>6. Onward(gate[p]).pc = "edit" => EditsTheSeen(Onward(gate[p]).base, Effective', asg'[Effective'])
    BY <2>1, <2>3, <2>5 DEF EditsTheSeen
  <2> QED
    BY <1>1, <1>2, <1>4, <2>3, <2>4, <2>5, <2>6
<1>8. CASE Edit(p)
  <2>1. Appends /\ Effective' = Effective /\ asg' = asg /\ EditsTheSeen(gate[p].base, Effective, asg[Effective])
    BY <1>8, NoWriteAppends DEF Edit, InGate, SequentialInv, GateCurrent
  <2>2. PICK draft :
           gate' = [gate EXCEPT ![p] =
              [gate[p] EXCEPT !.pc = "write", !.input = Effective, !.draft = draft]]
    BY <1>8 DEF Edit
  <2> DEFINE new == [gate[p] EXCEPT !.pc = "write", !.input = Effective, !.draft = draft]
  <2>3. new.pc = "write" /\ new.input = Effective /\ new.base = gate[p].base
    BY <1>3 DEF GateFrame
  <2>4. EditsTheSeen(new.base, Effective', asg'[Effective'])
    <3>1. gate[p].base = new.base
      BY <2>3
    <3> HIDE DEF new
    <3> QED
      BY <2>1, <2>3, <3>1 DEF EditsTheSeen
  <2>5. gate' = [gate EXCEPT ![p] = new]
    BY <2>2
  <2> HIDE DEF new
  <2> QED
    BY <1>1, <1>2, <1>4, <2>1, <2>3, <2>4, <2>5
<1>9. CASE WriteEdit(p)
  <2>1. gate[p].input = Effective /\ gate[p].draft.prev = Effective /\ Effective \in Versions
    BY <1>9 DEF WriteEdit, InGate, SequentialInv, GateCurrent, FlowInv, GateOK
  <2>2. WriteAssignment(Effective + 1, gate[p].draft)
    BY <1>9, <2>1 DEF WriteEdit
  <2>3. Appends
    BY <1>3, <2>1, <2>2, WriteNextAppends
  <2>4. gate' = [gate EXCEPT ![p] = GateIdle] /\ GateIdle.pc = "idle"
    BY <1>9 DEF WriteEdit, GateEnd, GateIdle
  <2> QED
    BY <1>1, <1>2, <1>4, <2>3, <2>4
<1>10. CASE GateStops(p)
  <2>1. gate' = [gate EXCEPT ![p] = GateIdle] /\ GateIdle.pc = "idle"
    BY <1>10 DEF GateStops, GateEnd, GateIdle
  <2> QED
    BY <1>1, <1>2, <1>4, <1>10, <2>1, NoWriteAppends DEF GateStops
<1> QED
  BY <1>5, <1>6, <1>7, <1>8, <1>9, <1>10 DEF Gate

(* A preview that is written is hidden, and what replaces it is not one.   *)
LEMMA PreviewStaysHidden ==
  ASSUME ~Overlap, FlowInv, FlowInv', SequentialInv, NEW p \in CheckProcs, Check(p),
         NEW frame, rc' = [rc EXCEPT ![p] = frame],
         \A r \in 1 .. Len(checks) : checks'[r].external = checks[r].external,
         Len(checks) <= Len(checks'),
         rcOut' # NoOut => /\ rcOut'.run \in 1 .. Len(checks')
                           /\ checks'[rcOut'.run].external => rcMark' = "awaiting",
         frame.pc \in {"keep", "output"} =>
            (checks'[frame.run].external => rcMark' = "awaiting"),
         frame.pc \in {"record", "settle"} =>
            ~checks'[frame.run].external /\ rcOut' # NoOut /\ rcOut'.run = frame.run
  PROVE  PreviewHidden'
<1>1. rc \in [CheckProcs -> CheckFrame]
  BY DEF FlowInv, CheckOK
<1>2. rc'[p] = frame /\ \A q \in CheckProcs : q # p => rc'[q].pc = "idle"
  BY <1>1, StepsAlone DEF SequentialInv, CheckBusy
<1> QED
  BY <1>2 DEF PreviewHidden, MyRun

(* How a run was asked for, and what it checks.                            *)
AskedAs(a, b) == a.external = b.external /\ a.forced = b.forced /\ a.input = b.input

(* No step changes that, nor anything of another process's run.            *)
LEMMA RunsKeepTheirMode ==
  ASSUME FlowInv, NEW p \in CheckProcs, Check(p)
  PROVE  /\ Len(checks) <= Len(checks')
         /\ \A r \in 1 .. Len(checks) : AskedAs(checks'[r], checks[r])
         /\ \A r \in 1 .. Len(checks) :
               r # rc[p].run \/ ~CheckBusy(p) => checks'[r] = checks[r]
<1>1. checks \in Seq(CheckRun) /\ rc[p] \in CheckFrame
  BY DEF FlowInv, RunsOK, CheckOK
<1> DEFINE Goal == /\ Len(checks) <= Len(checks')
                   /\ \A r \in 1 .. Len(checks) : AskedAs(checks'[r], checks[r])
                   /\ \A r \in 1 .. Len(checks) : r # rc[p].run => checks'[r] = checks[r]
<1>2. CASE UNCHANGED checks
  BY <1>1, <1>2 DEF AskedAs
<1>3. ASSUME NEW how, RunEnds(p, how)
      PROVE  Goal
  <2>1. \A r \in 1 .. Len(checks) : checks[r] \in CheckRun
    BY <1>1
  <2> DEFINE ended(r) == [checks[r] EXCEPT !.end = how]
  <2>2. \A r \in 1 .. Len(checks) : checks'[r] = IF r = rc[p].run THEN ended(r) ELSE checks[r]
    BY <1>1, <1>3 DEF RunEnds
  <2>3. Len(checks') = Len(checks)
    BY <1>1, <1>3 DEF RunEnds
  <2>4. \A r \in 1 .. Len(checks) : AskedAs(ended(r), checks[r]) /\ AskedAs(checks[r], checks[r])
    BY <2>1 DEF CheckRun, AskedAs
  <2> HIDE DEF ended
  <2> QED
    BY <1>1, <2>2, <2>3, <2>4
<1>4. ASSUME Keep(p) PROVE Goal
  <2> DEFINE number == NumberToWrite(p)
  <2>1. \A r \in 1 .. Len(checks) : checks[r] \in CheckRun
    BY <1>1
  <2>2. checks' = [checks EXCEPT ![rc[p].run].wrote = number]
    BY <1>4 DEF Keep
  <2> HIDE DEF number
  <2> DEFINE numbered(r) == [checks[r] EXCEPT !.wrote = number]
  <2>3. \A r \in 1 .. Len(checks) : checks'[r] = IF r = rc[p].run THEN numbered(r) ELSE checks[r]
    BY <1>1, <2>2
  <2>4. Len(checks') = Len(checks)
    BY <1>1, <2>2
  <2>5. \A r \in 1 .. Len(checks) : AskedAs(numbered(r), checks[r]) /\ AskedAs(checks[r], checks[r])
    BY <2>1 DEF CheckRun, AskedAs
  <2> HIDE DEF numbered
  <2> QED
    BY <1>1, <2>3, <2>4, <2>5
<1>5. ASSUME RunCheck(p) \/ PrepareCheck(p)
      PROVE  /\ Len(checks) <= Len(checks')
             /\ \A r \in 1 .. Len(checks) : checks'[r] = checks[r]
  <2>1. \E run : checks' = Append(checks, run)
    BY <1>5 DEF RunCheck, PrepareCheck, StartCheck
  <2> QED
    BY <1>1, <2>1
<1>6. CASE Request(p) \/ MarkAwaiting(p) \/ RecordRun(p) \/ Settle(p)
  BY <1>2, <1>6 DEF Request, MarkAwaiting, RecordRun, Settle
<1>7. ASSUME Output(p) \/ Revise(p) \/ CheckStops(p) PROVE Goal
  BY <1>2, <1>3, <1>7 DEF Output, Revise, CheckStops, AskedAs
<1>8. \/ RunCheck(p) \/ PrepareCheck(p)
      \/ CheckBusy(p)
  BY DEF Check, Request, MarkAwaiting, Keep, Output, RecordRun, Settle, Revise, CheckStops,
         InCheck, CheckBusy
<1> QED
  BY <1>4, <1>5, <1>6, <1>7, <1>8 DEF Check, AskedAs

(* A reality check writes the version it numbered, which is still the      *)
(* next, and no preview comes to light.                                    *)
LEMMA CheckSequential ==
  ASSUME ~Overlap, FlowInv, FlowInv', SequentialInv, NEW p \in CheckProcs, Check(p),
         UNCHANGED <<gate, resolver, edits>>
  PROVE  Appends /\ GateCurrent' /\ CheckCurrent' /\ ResolverCurrent' /\ PreviewHidden'
<1>1. GateCurrent' /\ ResolverCurrent'
  BY StepsAlone
     DEF SequentialInv, GateCurrent, ResolverCurrent, GateBusy, ResolverBusy
<1>2. /\ rc \in [CheckProcs -> CheckFrame] /\ rc[p] \in CheckFrame /\ Effective \in Nat
      /\ checks \in Seq(CheckRun) /\ rcOut \in Out
      /\ CheckFrameOK(rc[p], Len(checks), Versions, Effective)
  BY CheckFrames, AssignmentAssumption DEF FlowInv, StoreOK, CheckOK, RunsOK
<1>3. /\ Len(checks) <= Len(checks')
      /\ \A r \in 1 .. Len(checks) : checks'[r].external = checks[r].external
  BY RunsKeepTheirMode DEF AskedAs
<1>4. /\ rcOut # NoOut => /\ rcOut.run \in 1 .. Len(checks)
                          /\ checks[rcOut.run].external => rcMark = "awaiting"
      /\ rc[p].pc \in {"keep", "output"} => (checks[rc[p].run].external => rcMark = "awaiting")
      /\ rc[p].pc \in {"record", "settle"} =>
            ~checks[rc[p].run].external /\ rcOut # NoOut /\ rcOut.run = rc[p].run
      /\ rc[p].pc # "idle" => rc[p].run \in 1 .. Len(checks)
      /\ rc[p].pc # "idle" /\ rc[p].wrote # 0 => rc[p].wrote = Effective + 1
  BY <1>2 DEF SequentialInv, PreviewHidden, CheckCurrent, CheckBusy, CheckFrameOK, MyRun
<1>5. ASSUME NEW frame, rc' = [rc EXCEPT ![p] = frame],
             frame.pc # "idle" /\ frame.wrote # 0 => frame.wrote = Effective' + 1
      PROVE  CheckCurrent'
  <2>1. rc'[p] = frame /\ \A q \in CheckProcs : q # p => rc'[q].pc = "idle"
    BY <1>2, <1>5, StepsAlone DEF SequentialInv, CheckBusy
  <2> QED
    BY <1>5, <2>1 DEF CheckCurrent, CheckBusy
<1>6. rcOut' = rcOut /\ rcOut # NoOut =>
         rcOut'.run \in 1 .. Len(checks') /\ checks'[rcOut'.run].external = checks[rcOut.run].external
  BY <1>2, <1>3, <1>4
<1>7. CASE \E external \in BOOLEAN : StartCheck(p, external)
  <2>1. PICK external \in BOOLEAN : StartCheck(p, external)
    BY <1>7
  <2>2. /\ Appends /\ Effective' = Effective /\ UNCHANGED <<rcOut, rcRec, rcMark>>
    BY <2>1, NoWriteAppends DEF StartCheck
  <2>3. PICK frame, run :
           /\ rc' = [rc EXCEPT ![p] = frame] /\ checks' = Append(checks, run)
           /\ frame.pc = IF external THEN "request" ELSE "keep"
           /\ frame.wrote = 0 /\ frame.run = Len(checks) + 1 /\ run.external = external
    <3>1. PICK forced \in BOOLEAN, input \in Versions :
             /\ checks' = Append(checks, [forced |-> forced, external |-> external,
                                          input |-> input, wrote |-> 0, end |-> "open"])
             /\ \E draft \in {NoDraft} \cup Consolidated(input) :
                   rc' = [rc EXCEPT ![p] =
                      [pc |-> IF external THEN "request" ELSE "keep", run |-> Len(checks) + 1,
                       input |-> input, wrote |-> 0, draft |-> draft]]
      BY <2>1 DEF StartCheck
    <3>2. PICK draft :
             rc' = [rc EXCEPT ![p] =
                [pc |-> IF external THEN "request" ELSE "keep", run |-> Len(checks) + 1,
                 input |-> input, wrote |-> 0, draft |-> draft]]
      BY <3>1
    <3> DEFINE new == [pc |-> IF external THEN "request" ELSE "keep", run |-> Len(checks) + 1,
                       input |-> input, wrote |-> 0, draft |-> draft]
               started == [forced |-> forced, external |-> external, input |-> input,
                           wrote |-> 0, end |-> "open"]
    <3>3. /\ rc' = [rc EXCEPT ![p] = new] /\ checks' = Append(checks, started)
          /\ new.pc = IF external THEN "request" ELSE "keep"
          /\ new.wrote = 0 /\ new.run = Len(checks) + 1 /\ started.external = external
      BY <3>1, <3>2
    <3> HIDE DEF new, started
    <3> QED
      BY <3>3
  <2>4. checks'[frame.run] = run
    BY <1>2, <2>3
  <2> QED
    BY <1>1, <1>3, <1>4, <1>5, <1>6, <2>2, <2>3, <2>4, PreviewStaysHidden
<1>8. CASE Request(p)
  <2> DEFINE new == [rc[p] EXCEPT !.pc = "mark"]
  <2>1. rc' = [rc EXCEPT ![p] = new] /\ new.pc = "mark" /\ new.wrote = rc[p].wrote
    BY <1>2, <1>8 DEF Request, CheckGoto, CheckFrame
  <2>2. Appends /\ Effective' = Effective /\ UNCHANGED <<rcOut, rcMark, checks>> /\ rc[p].pc # "idle"
    BY <1>8, NoWriteAppends DEF Request, InCheck
  <2> HIDE DEF new
  <2> QED
    BY <1>1, <1>3, <1>4, <1>5, <1>6, <2>1, <2>2, PreviewStaysHidden
<1>9. CASE MarkAwaiting(p)
  <2> DEFINE new == [rc[p] EXCEPT !.pc = "keep"]
  <2>1. rc' = [rc EXCEPT ![p] = new] /\ new.pc = "keep" /\ new.wrote = rc[p].wrote
    BY <1>2, <1>9 DEF MarkAwaiting, CheckGoto, CheckFrame
  <2>2. /\ Appends /\ Effective' = Effective /\ UNCHANGED <<rcOut, checks>>
        /\ rcMark' = "awaiting" /\ rc[p].pc # "idle"
    BY <1>9, NoWriteAppends DEF MarkAwaiting, InCheck
  <2> HIDE DEF new
  <2> QED
    BY <1>1, <1>3, <1>4, <1>5, <1>6, <2>1, <2>2, PreviewStaysHidden
<1>10. CASE Keep(p)
  <2> DEFINE new == [rc[p] EXCEPT !.pc = "output", !.wrote = NumberToWrite(p)]
  <2>1. /\ rc' = [rc EXCEPT ![p] = new] /\ new.pc = "output" /\ new.run = rc[p].run
        /\ new.wrote = NumberToWrite(p)
    BY <1>2, <1>10 DEF Keep, CheckFrame
  <2>2. /\ Appends /\ Effective' = Effective /\ UNCHANGED <<rcOut, rcMark>>
        /\ rc[p].pc = "keep"
    BY <1>10, NoWriteAppends DEF Keep, InCheck
  <2>3. NumberToWrite(p) # 0 => NumberToWrite(p) = Effective + 1
    <3>1. rc[p].input \in Versions
      BY <1>2, <2>2 DEF CheckFrameOK
    <3> QED
      BY <3>1, NumberIsNext
  <2> HIDE DEF new
  <2> QED
    BY <1>1, <1>3, <1>4, <1>5, <1>6, <2>1, <2>2, <2>3, PreviewStaysHidden
<1>11. CASE Output(p)
  <2> DEFINE new == IF MyRun(p).external THEN CheckIdle ELSE [rc[p] EXCEPT !.pc = "record"]
  <2>1. /\ rc' = [rc EXCEPT ![p] = new]
        /\ checks[rc[p].run].external => new.pc = "idle"
        /\ ~checks[rc[p].run].external =>
              new.pc = "record" /\ new.run = rc[p].run /\ new.wrote = rc[p].wrote
    BY <1>2, <1>11 DEF Output, CheckFrame, CheckIdle, MyRun
  <2>2. /\ Appends /\ Effective' = Effective /\ UNCHANGED rcMark
        /\ rc[p].pc = "output"
    BY <1>11, NoWriteAppends DEF Output, InCheck
  <2>3. rcOut'.run = rc[p].run /\ rcOut' # NoOut
    <3>1. rcOut'.run = rc[p].run
      BY <1>11 DEF Output
    <3>2. rc[p].run # 0
      BY <1>4, <2>2
    <3> QED
      BY <3>1, <3>2 DEF NoOut
  <2> HIDE DEF new
  <2>4. /\ rcOut'.run \in 1 .. Len(checks')
        /\ checks'[rcOut'.run].external = checks[rc[p].run].external
    BY <1>2, <1>3, <1>4, <2>2, <2>3
  <2> QED
    BY <1>1, <1>3, <1>4, <1>5, <2>1, <2>2, <2>3, <2>4, PreviewStaysHidden
<1>12. CASE RecordRun(p)
  <2> DEFINE new == [rc[p] EXCEPT !.pc = "settle"]
  <2>1. /\ rc' = [rc EXCEPT ![p] = new] /\ new.pc = "settle" /\ new.run = rc[p].run
        /\ new.wrote = rc[p].wrote
    BY <1>2, <1>12 DEF RecordRun, CheckGoto, CheckFrame
  <2>2. /\ Appends /\ Effective' = Effective /\ UNCHANGED <<rcOut, rcMark, checks>>
        /\ rc[p].pc = "record"
    BY <1>12, NoWriteAppends DEF RecordRun, InCheck
  <2> HIDE DEF new
  <2> QED
    BY <1>1, <1>3, <1>4, <1>5, <1>6, <2>1, <2>2, PreviewStaysHidden
<1>13. CASE Settle(p)
  <2> DEFINE new == IF rc[p].wrote = 0 THEN CheckIdle ELSE [rc[p] EXCEPT !.pc = "revise"]
  <2>1. /\ rc' = [rc EXCEPT ![p] = new] /\ new.pc \in {"idle", "revise"}
        /\ new.pc # "idle" => new.wrote = rc[p].wrote
    BY <1>2, <1>13 DEF Settle, CheckEnd, CheckGoto, CheckFrame, CheckIdle
  <2>2. /\ Appends /\ Effective' = Effective /\ UNCHANGED <<rcOut, checks>>
        /\ rc[p].pc = "settle"
    BY <1>13, NoWriteAppends DEF Settle, InCheck
  <2> HIDE DEF new
  <2> QED
    BY <1>1, <1>3, <1>4, <1>5, <1>6, <2>1, <2>2, PreviewStaysHidden
<1>14. CASE Revise(p)
  <2>1. rc' = [rc EXCEPT ![p] = CheckIdle] /\ CheckIdle.pc = "idle"
    BY <1>14 DEF Revise, CheckEnd, CheckIdle
  <2>2. UNCHANGED <<rcOut, rcMark>> /\ rc[p].pc = "revise"
    BY <1>14 DEF Revise, InCheck
  <2>3. /\ rc[p].wrote = Effective + 1 /\ rc[p].draft.prev = rc[p].input
        /\ rc[p].input \in Versions /\ rc[p].input < Effective + 1
    BY <1>2, <1>4, <2>2 DEF CheckFrameOK
  <2>4. Appends
    BY <1>14, <2>3, WriteNextAppends DEF Revise
  <2> QED
    BY <1>1, <1>3, <1>4, <1>5, <1>6, <2>1, <2>2, <2>4, PreviewStaysHidden
<1>15. CASE CheckStops(p)
  <2>1. rc' = [rc EXCEPT ![p] = CheckIdle] /\ CheckIdle.pc = "idle"
    BY <1>15 DEF CheckStops, CheckEnd, CheckIdle
  <2>2. Appends /\ UNCHANGED <<rcOut, rcMark>>
    BY <1>15, NoWriteAppends DEF CheckStops
  <2> QED
    BY <1>1, <1>3, <1>4, <1>5, <1>6, <2>1, <2>2, PreviewStaysHidden
<1> QED
  BY <1>7, <1>8, <1>9, <1>10, <1>11, <1>12, <1>13, <1>14, <1>15 DEF Check, RunCheck, PrepareCheck

(* An assignment phase writes the version it numbered, still the next.     *)
LEMMA ResolverSequential ==
  ASSUME ~Overlap, FlowInv, SequentialInv, NEW p \in Resolvers, Resolve(p),
         UNCHANGED <<gate, rcVars>>
  PROVE  Appends /\ GateCurrent' /\ CheckCurrent' /\ ResolverCurrent' /\ PreviewHidden'
<1>1. GateCurrent' /\ CheckCurrent'
  BY StepsAlone DEF SequentialInv, GateCurrent, CheckCurrent, GateBusy, CheckBusy, rcVars
<1>2. PreviewHidden'
  BY DEF SequentialInv, PreviewHidden, MyRun, rcVars
<1>3. resolver \in [Resolvers -> 0 .. MaxVersion] /\ Effective \in Nat
  BY AssignmentAssumption DEF FlowInv, StoreOK, ResolverOK
<1>4. \A q \in Resolvers : q # p => resolver'[q] = 0
  BY StepsAlone, ResolverStepsOne DEF SequentialInv, ResolverBusy
<1>5. Appends /\ (resolver'[p] # 0 => resolver'[p] = Effective' + 1)
  <2>1. CASE StartResolver(p) \/ ResolverStops(p)
    BY <1>3, <2>1, NoWriteAppends DEF StartResolver, ResolverStops, NextVersion
  <2>2. CASE WriteResolution(p)
    <3>1. PICK owner \in [Queries -> Engines] : WriteAssignment(resolver[p], Resolution(owner))
      BY <2>2 DEF WriteResolution
    <3>2. resolver[p] = Effective + 1
      BY <2>2 DEF WriteResolution, SequentialInv, ResolverCurrent, ResolverBusy
    <3>3. Resolution(owner).prev = 0 /\ Resolution(owner).source = "resolved"
      BY DEF Resolution
    <3>4. Appends
      BY <1>3, <3>1, <3>2, <3>3, WriteNextAppends
    <3> QED
      BY <1>3, <2>2, <3>4 DEF WriteResolution
  <2> QED
    BY <2>1, <2>2 DEF Resolve
<1> QED
  BY <1>1, <1>2, <1>4, <1>5 DEF ResolverCurrent, ResolverBusy

(***************************************************************************)
(* The theorems                                                            *)
(***************************************************************************)

(* Nobody is under way at first, and there is no preview.                  *)
LEMMA SequentialInit == Init => SequentialInv
  BY DEF Init, SequentialInv, OneCall, GateCurrent, CheckCurrent, ResolverCurrent, PreviewHidden,
         GateBusy, CheckBusy, ResolverBusy, GateIdle, CheckIdle

(* Every step keeps the invariant, and every version.                      *)
LEMMA SequentialNext ==
  ASSUME ~Overlap, FlowInv, FlowInv', SequentialInv, Next
  PROVE  SequentialInv' /\ Appends
  BY OneCallKept, GateSequential, CheckSequential, ResolverSequential DEF Next, SequentialInv

(* The invariant holds of every behaviour in which calls do not overlap.   *)
LEMMA SequentialInvariant ==
  ASSUME ~Overlap
  PROVE  Spec => [](FlowInv /\ SequentialInv)
<1>1. FlowInv /\ FlowInv' /\ SequentialInv /\ [Next]_flowVars => SequentialInv'
  <2>1. UNCHANGED flowVars /\ SequentialInv => SequentialInv'
    BY DEF flowVars, rcVars, SequentialInv, OneCall, GateCurrent, CheckCurrent,
           ResolverCurrent, PreviewHidden, GateBusy, CheckBusy, ResolverBusy, MyRun,
           EditsTheSeen, Effective, Versions
  <2> QED
    BY <2>1, SequentialNext
<1> QED
  BY <1>1, SequentialInit, FlowInvariant, PTL DEF Spec

(* Without overlap, no call overwrites a version, wherever those before it *)
(* were stopped: the number it lists, or derives from the version it read, *)
(* is the next when it writes (assignment_versioning.py:194).              *)
THEOREM AppendOnly ==
  ASSUME ~Overlap
  PROVE  Spec => VersionsAppendOnly
<1>1. FlowInv /\ FlowInv' /\ SequentialInv /\ [Next]_flowVars
      => [\A v \in Versions : v \in DOMAIN asg' /\ asg'[v] = asg[v]]_asg
  <2>1. UNCHANGED flowVars => UNCHANGED asg
    BY DEF flowVars
  <2> QED
    BY <2>1, SequentialNext DEF Appends
<1> QED
  BY <1>1, SequentialInvariant, PTL DEF Spec, VersionsAppendOnly

(* A preview that waits for its model never counts as a completed run.     *)
THEOREM PreviewNeverCounts ==
  ASSUME ~Overlap
  PROVE  Spec => []PreviewIsNoRun
<1>1. FlowInv /\ SequentialInv => PreviewIsNoRun
  BY DEF SequentialInv, PreviewHidden, PreviewIsNoRun, Completed
<1> QED
  BY <1>1, SequentialInvariant, PTL

(* A PUT that names the version it edits is applied to it, or to its       *)
(* re-routing.                                                             *)
THEOREM EditsTheSeenVersion ==
  ASSUME ~Overlap
  PROVE  Spec => []EditsWhatWasSeen
<1>1. FlowInv /\ SequentialInv => EditsWhatWasSeen
  BY DEF SequentialInv, GateCurrent, EditsTheSeen, EditsWhatWasSeen, InGate
<1> QED
  BY <1>1, SequentialInvariant, PTL

(***************************************************************************)
(* Walks along previous_version                                            *)
(***************************************************************************)

(* One step back of the walk of a lineage.                                 *)
StepBack(v) == IF v \in Versions /\ IsOverrideEdit(v) THEN asg[v].prev ELSE 0

(* The walk is what its recursion says.                                    *)
LEMMA WalkRuns ==
  ASSUME NEW start, MaxVersion \in Nat
  PROVE  /\ Walk(start)[0] = start
         /\ \A n \in 1 .. MaxVersion : Walk(start)[n] = StepBack(Walk(start)[n - 1])
<1> DEFINE Runs(f, m) == f = [n \in 0 .. m |-> IF n = 0 THEN start ELSE StepBack(f[n - 1])]
           Bad == {m \in Nat : ~ \E f : Runs(f, m)}
<1>1. Bad = {}
  <2>1. SUFFICES ASSUME Bad # {} PROVE FALSE
    OBVIOUS
  <2>2. PICK m \in Bad : \A k \in Bad : m <= k
    BY <2>1, LeastOf
  <2>3. CASE m = 0
    <3>1. Runs([n \in 0 .. 0 |-> start], 0)
      OBVIOUS
    <3> QED
      BY <2>3, <3>1
  <2>4. CASE m # 0
    <3>1. m - 1 \in Nat /\ m - 1 \notin Bad
      BY <2>2, <2>4
    <3>2. PICK f : Runs(f, m - 1)
      BY <3>1
    <3> DEFINE g == [n \in 0 .. m |-> IF n = m THEN StepBack(f[m - 1]) ELSE f[n]]
    <3>3. \A n \in 0 .. m : g[n] = IF n = 0 THEN start ELSE StepBack(g[n - 1])
      <4>1. \A n \in 0 .. m - 1 : f[n] = IF n = 0 THEN start ELSE StepBack(f[n - 1])
        BY <3>2
      <4>2. \A n \in 0 .. m - 1 : g[n] = f[n]
        BY <3>1
      <4>3. ASSUME NEW n \in 0 .. m, n # m
            PROVE  g[n] = IF n = 0 THEN start ELSE StepBack(g[n - 1])
        <5>1. n \in 0 .. m - 1 /\ (n # 0 => n - 1 \in 0 .. m - 1)
          BY <3>1, <4>3
        <5> HIDE DEF g
        <5> QED
          BY <4>1, <4>2, <5>1
      <4>4. g[m] = StepBack(f[m - 1]) /\ f[m - 1] = g[m - 1]
        BY <3>1, <2>4
      <4> HIDE DEF g
      <4> QED
        BY <2>4, <4>3, <4>4
    <3>4. Runs(g, m)
      BY <3>3
    <3> QED
      BY <3>4
  <2> QED
    BY <2>3, <2>4
<1>2. Walk(start) = CHOOSE f : Runs(f, MaxVersion)
  BY DEF Walk, StepBack
<1>3. PICK f : Runs(f, MaxVersion)
  BY <1>1
<1>4. Runs(Walk(start), MaxVersion)
  BY <1>2, <1>3
<1> QED
  BY <1>4

(* A version that exists is the first of its own lineage.                  *)
LEMMA FirstOfItsLineage ==
  ASSUME NEW v \in Versions, MaxVersion \in Nat
  PROVE  v \in Lineage(v)
<1>1. Walk(v)[0] = v /\ 0 \in 0 .. MaxVersion
  BY WalkRuns
<1> QED
  BY <1>1 DEF Lineage

(* The version in force, in the numbers.                                   *)
LEMMA InForce ==
  ASSUME FlowInv
  PROVE  /\ Effective \in Nat /\ Versions = 1 .. Effective /\ Effective <= MaxVersion
         /\ Versions # {} => Effective \in Versions /\ asg[Effective] \in Assignment
<1>1. Effective \in 0 .. MaxVersion /\ Versions = 1 .. Effective
  BY DEF FlowInv, StoreOK, LineageWellFormed
<1>2. Versions # {} => Effective \in 1 .. Effective
  BY <1>1, AssignmentAssumption
<1> QED
  BY <1>1, <1>2, AssignmentAssumption DEF FlowInv, StoreOK

(***************************************************************************)
(* The customer's picks                                                    *)
(***************************************************************************)

(* What one version keeps of the picks of another: every one; or every one *)
(* that it does not move.                                                  *)
KeepsPicks(d, a) == \A q \in a.pinned : q \in d.pinned /\ d.owner[q] = a.owner[q]
CarriesPicks(d, a) == \A q \in a.pinned : d.owner[q] = a.owner[q] => q \in d.pinned

(* A re-route drops no pick but those it overrides, and a reality check    *)
(* nobody asked for an explicit version works on the one in force.         *)
ChoiceInv ==
    /\ CustomerChoiceStands
    /\ \A p \in GateProcs : gate[p].pc \in {"reroute", "rewrite"} =>
          CarriesPicks(gate[p].draft, asg[Effective])
    /\ \A p \in CheckProcs : CheckBusy(p) /\ ~MyRun(p).forced =>
          /\ rc[p].input = Effective
          /\ Consolidates(p) => KeepsPicks(rc[p].draft, asg[Effective])

(* A re-routing carries the picks it does not override.                    *)
LEMMA ReroutedCarries ==
  ASSUME NEW v, asg[v] \in Assignment, NEW d \in Rerouted(v)
  PROVE  CarriesPicks(d, asg[v])
<1>1. PICK e : /\ d.owner = MoveTo(asg[v].owner, WriteGroup, e)
               /\ d.pinned = asg[v].pinned
                             \ {q \in WriteGroup \cap asg[v].pinned : asg[v].owner[q] # e}
  BY DEF Rerouted, ReroutedTo
<1>2. \A q \in asg[v].pinned : q \in Queries
  BY DEF Assignment
<1>3. \A q \in asg[v].pinned \cap WriteGroup : d.owner[q] = e
  BY <1>1, <1>2 DEF MoveTo
<1> QED
  BY <1>1, <1>3 DEF CarriesPicks

(* A consolidation keeps them all.                                         *)
LEMMA ConsolidatedKeeps ==
  ASSUME NEW v, asg[v] \in Assignment, NEW d \in Consolidated(v)
  PROVE  KeepsPicks(d, asg[v]) /\ d.source = "reality_check" /\ d.prev = v
<1> DEFINE free == {UnitOf(q) : q \in Queries} \cap SUBSET (Queries \ asg[v].pinned)
<1>0. \A units \in SUBSET free : UNION units \subseteq Queries \ asg[v].pinned
  OBVIOUS
<1>1. PICK units \in SUBSET free, e \in Engines : d = Moved(v, UNION units, e)
  <2>1. d \in MovesOf(v, free)
    BY DEF Consolidated
  <2> HIDE DEF free
  <2>2. \E queries \in {UNION units : units \in SUBSET free}, e \in Engines :
           d = Moved(v, queries, e)
    BY <2>1 DEF MovesOf
  <2> QED
    BY <2>2
<1>2. \A q \in asg[v].pinned : q \in Queries /\ q \notin UNION units
  BY <1>0, <1>1 DEF Assignment
<1>3. /\ d.owner = MoveTo(asg[v].owner, UNION units, e) /\ d.pinned = asg[v].pinned
      /\ d.source = "reality_check" /\ d.prev = v
  BY <1>1 DEF Moved
<1> QED
  BY <1>2, <1>3 DEF MoveTo, KeepsPicks

(* An edit is in force with the picks it carries.                          *)
LEMMA PicksStand ==
  ASSUME NEW a \in Assignment, NEW q \in Queries, PicksOf(a)[q] # NoEngine
  PROVE  a.owner[q] = PicksOf(a)[q] /\ q \in a.pinned
  BY DEF PicksOf

(* A reality check that nobody asked for an explicit version, and finds no *)
(* run for the lineage in force, takes the version in force, which is not  *)
(* a consolidation.                                                        *)
LEMMA InputIsEffective ==
  ASSUME FlowInv, Versions # {}, ~RunForLineage
  PROVE  InputVersion = Effective /\ ~IsRealityCheckProduced(Effective)
<1>1. Effective \in Versions /\ Versions = 1 .. Effective /\ Effective \in Nat
  BY InForce
<1>2. ~IsRealityCheckProduced(Effective)
  BY <1>1, FirstOfItsLineage, AssignmentAssumption DEF RunForLineage
<1> DEFINE inputs == {v \in Versions : ~IsRealityCheckProduced(v)}
<1>3. inputs \in SUBSET Int /\ Effective \in inputs /\ \A v \in inputs : v <= Effective
  BY <1>1, <1>2
<1>4. InputVersion = Max(inputs)
  BY <1>3 DEF InputVersion
<1>5. Max(inputs) = Effective
  <2> HIDE DEF inputs
  <2> QED
    BY <1>3, MaxIs
<1> QED
  BY <1>2, <1>4, <1>5

(* Nothing is picked and no version is written.                            *)
LEMMA ChoiceRests ==
  ASSUME CustomerChoiceStands, UNCHANGED <<asg, chosen>>
  PROVE  CustomerChoiceStands'
  BY DEF CustomerChoiceStands, Effective, Versions

(* A version is written as the next, and carries what is then chosen.      *)
LEMMA ChoiceWritten ==
  ASSUME FlowInv, NEW a \in Assignment, WriteAssignment(Effective + 1, a),
         a.prev < Effective + 1, a.source # "resolved" => a.prev \in Versions,
         \A q \in Queries : chosen'[q] # NoEngine => a.owner[q] = chosen'[q] /\ q \in a.pinned
  PROVE  CustomerChoiceStands'
<1>1. Effective' = Effective + 1 /\ asg'[Effective + 1] = a
  BY WriteNextAppends
<1> QED
  BY <1>1 DEF CustomerChoiceStands

(* The gate re-routes without dropping a pick that stands, and edits.      *)
LEMMA GateChoice ==
  ASSUME ~Overlap, FlowInv, SequentialInv, ChoiceInv, NEW p \in GateProcs, Gate(p),
         UNCHANGED <<rcVars, resolver>>
  PROVE  ChoiceInv'
<1>1. \A q \in CheckProcs : ~CheckBusy(q)'
  BY StepsAlone DEF SequentialInv, CheckBusy, rcVars
<1>2. gate \in [GateProcs -> GateFrame] /\ \A q \in GateProcs : q # p => gate'[q].pc = "idle"
  BY StepsAlone, GateStepsOne DEF SequentialInv, GateBusy, FlowInv, GateOK
<1>3. Effective \in Nat /\ (Versions # {} => Effective \in Versions /\ asg[Effective] \in Assignment)
  BY InForce
<1>4. ASSUME NEW frame, gate' = [gate EXCEPT ![p] = frame], CustomerChoiceStands',
             frame.pc \in {"reroute", "rewrite"} =>
                CarriesPicks(frame.draft, asg'[Effective'])
      PROVE  ChoiceInv'
  <2>1. gate'[p] = frame
    BY <1>2, <1>4
  <2> QED
    BY <1>1, <1>2, <1>4, <2>1 DEF ChoiceInv, CarriesPicks
<1>5. CASE PutAssignments(p) \/ GetAssignments(p) \/ StartDesign(p)
  <2>1. PICK op \in GateOp, base \in {0, Effective} : GateBegins(p, op, base)
    BY <1>5 DEF PutAssignments, GetAssignments, StartDesign, GateOp
  <2>2. Effective' = Effective /\ asg' = asg /\ CustomerChoiceStands' /\ Versions # {}
    <3>1. Effective > 0
      BY <1>5 DEF PutAssignments, GetAssignments, StartDesign
    <3>2. Versions # {}
      BY <3>1 DEF Effective
    <3> QED
      BY <2>1, <3>2, NoWriteAppends, ChoiceRests DEF GateBegins, ChoiceInv
  <2> DEFINE frame == [GateIdle EXCEPT !.op = op, !.base = base]
  <2>3. CASE gate' = [gate EXCEPT ![p] = Onward(frame)]
    <3>1. Onward(frame).pc \in {"idle", "edit"}
      BY DEF Onward, GateIdle
    <3> HIDE DEF frame
    <3> QED
      BY <1>4, <2>2, <2>3, <3>1
  <2>4. ASSUME NEW draft \in Rerouted(Effective),
               gate' = [gate EXCEPT ![p] =
                  [frame EXCEPT !.pc = "reroute", !.input = Effective, !.draft = draft]]
        PROVE  ChoiceInv'
    <3> DEFINE new == [frame EXCEPT !.pc = "reroute", !.input = Effective, !.draft = draft]
    <3>1. CarriesPicks(draft, asg[Effective])
      BY <1>3, <2>2, ReroutedCarries
    <3>2. new.draft = draft
      BY DEF GateIdle
    <3>3. gate' = [gate EXCEPT ![p] = new]
      BY <2>4
    <3> HIDE DEF new
    <3> QED
      BY <1>4, <2>2, <3>1, <3>2, <3>3
  <2> QED
    BY <2>1, <2>3, <2>4 DEF GateBegins
<1>6. CASE Reroute(p)
  <2>1. /\ gate[p].pc = "reroute" /\ gate[p].input = Effective /\ asg' = asg
        /\ Effective' = Effective /\ CustomerChoiceStands'
        /\ CarriesPicks(gate[p].draft, asg[Effective])
    BY <1>6, NoWriteAppends, ChoiceRests
       DEF Reroute, InGate, SequentialInv, GateCurrent, ChoiceInv
  <2>2. gate' = [gate EXCEPT ![p].pc = "rewrite"]
    <3>1. Effective + 1 \notin Versions
      BY <1>3, InForce
    <3> QED
      BY <1>6, <2>1, <3>1 DEF Reroute
  <2> DEFINE new == [gate[p] EXCEPT !.pc = "rewrite"]
  <2>3. new.draft = gate[p].draft
    BY <1>2 DEF GateFrame
  <2>4. gate' = [gate EXCEPT ![p] = new]
    BY <2>2
  <2> HIDE DEF new
  <2> QED
    BY <1>4, <2>1, <2>3, <2>4
<1>7. CASE Rewrite(p)
  <2>1. /\ gate[p].pc = "rewrite" /\ gate[p].input = Effective
        /\ CarriesPicks(gate[p].draft, asg[Effective])
        /\ gate[p].draft \in Assignment
        /\ gate[p].draft.prev = Effective /\ Effective \in Versions
    BY <1>7 DEF Rewrite, InGate, SequentialInv, GateCurrent, FlowInv, GateOK, ChoiceInv
  <2>2. WriteAssignment(Effective + 1, gate[p].draft)
    BY <1>7, <2>1 DEF Rewrite
  <2>3. ASSUME NEW q \in Queries, chosen'[q] # NoEngine
        PROVE  gate[p].draft.owner[q] = chosen'[q] /\ q \in gate[p].draft.pinned
    <3>1. asg[Effective].owner[q] = gate[p].draft.owner[q] /\ chosen'[q] = chosen[q]
      BY <1>7, <2>1, <2>3 DEF Rewrite
    <3>2. asg[Effective].owner[q] = chosen[q] /\ q \in asg[Effective].pinned
      BY <2>1, <2>3, <3>1 DEF ChoiceInv, CustomerChoiceStands
    <3> QED
      BY <2>1, <3>1, <3>2 DEF CarriesPicks
  <2>4. CustomerChoiceStands'
    BY <1>3, <2>1, <2>2, <2>3, ChoiceWritten
  <2>5. gate' = [gate EXCEPT ![p] = Onward(gate[p])]
    BY <1>7 DEF Rewrite, GateGoesOn
  <2>6. Onward(gate[p]).pc \in {"idle", "edit"}
    BY DEF Onward, GateIdle
  <2> QED
    BY <1>4, <2>4, <2>5, <2>6
<1>8. CASE Edit(p)
  <2>1. CustomerChoiceStands'
    BY <1>8, ChoiceRests DEF Edit, ChoiceInv
  <2>2. PICK draft :
           gate' = [gate EXCEPT ![p] =
              [gate[p] EXCEPT !.pc = "write", !.input = Effective, !.draft = draft]]
    BY <1>8 DEF Edit
  <2>3. [gate[p] EXCEPT !.pc = "write", !.input = Effective, !.draft = draft].pc = "write"
    BY <1>2 DEF GateFrame
  <2> QED
    BY <1>4, <2>1, <2>2, <2>3
<1>9. CASE WriteEdit(p)
  <2>1. /\ gate[p].input = Effective /\ gate[p].draft.prev = Effective /\ Effective \in Versions
        /\ gate[p].draft \in Assignment
    BY <1>9 DEF WriteEdit, InGate, SequentialInv, GateCurrent, FlowInv, GateOK
  <2>2. WriteAssignment(Effective + 1, gate[p].draft) /\ chosen' = PicksOf(gate[p].draft)
    BY <1>9, <2>1 DEF WriteEdit
  <2>3. CustomerChoiceStands'
    BY <1>3, <2>1, <2>2, PicksStand, ChoiceWritten
  <2>4. gate' = [gate EXCEPT ![p] = GateIdle] /\ GateIdle.pc = "idle"
    BY <1>9 DEF WriteEdit, GateEnd, GateIdle
  <2> QED
    BY <1>4, <2>3, <2>4
<1>10. CASE GateStops(p)
  <2>1. gate' = [gate EXCEPT ![p] = GateIdle] /\ GateIdle.pc = "idle"
    BY <1>10 DEF GateStops, GateEnd, GateIdle
  <2> QED
    BY <1>4, <1>10, <2>1, ChoiceRests DEF GateStops, ChoiceInv
<1> QED
  BY <1>5, <1>6, <1>7, <1>8, <1>9, <1>10 DEF Gate

(* An assignment phase starts over: nothing is chosen any more.            *)
LEMMA ResolverChoice ==
  ASSUME ~Overlap, FlowInv, SequentialInv, ChoiceInv, NEW p \in Resolvers, Resolve(p),
         UNCHANGED <<gate, rcVars>>
  PROVE  ChoiceInv'
<1>1. /\ \A q \in CheckProcs : ~CheckBusy(q)'
      /\ \A q \in GateProcs : gate'[q].pc = "idle"
  BY StepsAlone DEF SequentialInv, CheckBusy, GateBusy, rcVars
<1>2. CustomerChoiceStands'
  <2>1. CASE StartResolver(p) \/ ResolverStops(p)
    BY <2>1, ChoiceRests DEF StartResolver, ResolverStops, ChoiceInv
  <2>2. CASE WriteResolution(p)
    BY <2>2 DEF WriteResolution, CustomerChoiceStands, NothingChosen
  <2> QED
    BY <2>1, <2>2 DEF Resolve
<1> QED
  BY <1>1, <1>2 DEF ChoiceInv

(* A run that goes on works on what it took, for what it read, and has not *)
(* written a version.                                                      *)
LEMMA CheckGoesOn ==
  ASSUME FlowInv, NEW p \in CheckProcs, Check(p), CheckBusy(p)
  PROVE  /\ CheckBusy(p)' => /\ rc'[p].run = rc[p].run /\ rc'[p].input = rc[p].input
                             /\ rc'[p].draft = rc[p].draft
         /\ UNCHANGED <<asg, chosen>> \/ Revise(p)
<1>1. rc \in [CheckProcs -> CheckFrame] /\ rc[p] \in CheckFrame
  BY DEF FlowInv, CheckOK
<1>2. CheckIdle.pc = "idle"
  BY DEF CheckIdle
<1>3. CASE Request(p) \/ MarkAwaiting(p) \/ RecordRun(p)
  BY <1>1, <1>3 DEF Request, MarkAwaiting, RecordRun, CheckGoto, CheckFrame
<1>4. CASE Keep(p)
  <2> DEFINE number == NumberToWrite(p)
  <2>1. rc' = [rc EXCEPT ![p].pc = "output", ![p].wrote = number] /\ UNCHANGED <<asg, chosen>>
    BY <1>4 DEF Keep
  <2> HIDE DEF number
  <2> QED
    BY <1>1, <2>1 DEF CheckFrame
<1>5. CASE Output(p)
  <2> DEFINE new == [rc[p] EXCEPT !.pc = "record"]
  <2>1. new.run = rc[p].run /\ new.input = rc[p].input /\ new.draft = rc[p].draft
    BY <1>1 DEF CheckFrame
  <2>2. rc'[p] = (IF MyRun(p).external THEN CheckIdle ELSE new) /\ UNCHANGED <<asg, chosen>>
    BY <1>1, <1>5 DEF Output
  <2> HIDE DEF new
  <2> QED
    BY <1>2, <2>1, <2>2 DEF CheckBusy
<1>6. CASE Settle(p)
  BY <1>1, <1>2, <1>6 DEF Settle, CheckEnd, CheckGoto, CheckFrame, CheckBusy
<1>7. CASE Revise(p) \/ CheckStops(p)
  BY <1>1, <1>2, <1>7 DEF Revise, CheckStops, CheckEnd, CheckBusy
<1> QED
  BY <1>3, <1>4, <1>5, <1>6, <1>7
     DEF Check, RunCheck, PrepareCheck, StartCheck, InCheck, CheckBusy

(* A run that starts: what it was asked for, and the version it takes.     *)
LEMMA CheckStarts ==
  ASSUME FlowInv, NEW p \in CheckProcs, Check(p), ~CheckBusy(p)
  PROVE  \E external, forced \in BOOLEAN, input \in Versions :
            /\ ~forced => ~RunForLineage /\ input = Effective
                          /\ ~IsRealityCheckProduced(Effective)
            /\ checks' = Append(checks, [forced |-> forced, external |-> external,
                                         input |-> input, wrote |-> 0, end |-> "open"])
            /\ Len(checks') = Len(checks) + 1
            /\ checks'[Len(checks) + 1] = [forced |-> forced, external |-> external,
                                           input |-> input, wrote |-> 0, end |-> "open"]
            /\ rc'[p].pc = IF external THEN "request" ELSE "keep"
            /\ rc'[p].run = Len(checks) + 1 /\ rc'[p].input = input /\ rc'[p].wrote = 0
            /\ rc'[p].draft \in {NoDraft} \cup IF external THEN {} ELSE Consolidated(input)
            /\ UNCHANGED <<asg, chosen, rcOut, rcRec, rcMark>>
            /\ Alone
<1>1. Alone /\ \E external \in BOOLEAN : StartCheck(p, external)
  BY DEF Check, RunCheck, PrepareCheck, Request, MarkAwaiting, Keep, Output, RecordRun,
         Settle, Revise, CheckStops, InCheck, CheckBusy
<1>2. PICK external \in BOOLEAN : StartCheck(p, external)
  BY <1>1
<1>3. PICK forced \in BOOLEAN :
         \E input \in (IF forced THEN Versions ELSE {InputVersion} \cap Versions) :
            /\ ~forced => ~RunForLineage
            /\ checks' = Append(checks, [forced |-> forced, external |-> external,
                                         input |-> input, wrote |-> 0, end |-> "open"])
            /\ \E draft \in {NoDraft} \cup (IF external THEN {} ELSE Consolidated(input)) :
                  rc' = [rc EXCEPT ![p] =
                     [pc |-> IF external THEN "request" ELSE "keep", run |-> Len(checks) + 1,
                      input |-> input, wrote |-> 0, draft |-> draft]]
  BY <1>2 DEF StartCheck
<1>3a. PICK input \in (IF forced THEN Versions ELSE {InputVersion} \cap Versions) :
         /\ ~forced => ~RunForLineage
         /\ checks' = Append(checks, [forced |-> forced, external |-> external,
                                      input |-> input, wrote |-> 0, end |-> "open"])
         /\ \E draft \in {NoDraft} \cup (IF external THEN {} ELSE Consolidated(input)) :
               rc' = [rc EXCEPT ![p] =
                  [pc |-> IF external THEN "request" ELSE "keep", run |-> Len(checks) + 1,
                   input |-> input, wrote |-> 0, draft |-> draft]]
  BY <1>3
<1>4. PICK draft \in {NoDraft} \cup (IF external THEN {} ELSE Consolidated(input)) :
         rc' = [rc EXCEPT ![p] =
            [pc |-> IF external THEN "request" ELSE "keep", run |-> Len(checks) + 1,
             input |-> input, wrote |-> 0, draft |-> draft]]
  BY <1>3a
<1>5. input \in Versions
  BY <1>3a
<1>6. ~forced => ~RunForLineage /\ input = Effective /\ ~IsRealityCheckProduced(Effective)
  BY <1>3a, <1>5, InputIsEffective
<1>7. rc \in [CheckProcs -> CheckFrame] /\ checks \in Seq(CheckRun)
  BY DEF FlowInv, CheckOK, RunsOK
<1>8. rc'[p] = [pc |-> IF external THEN "request" ELSE "keep", run |-> Len(checks) + 1,
                input |-> input, wrote |-> 0, draft |-> draft]
  BY <1>4, <1>7
<1>9. UNCHANGED <<asg, chosen, rcOut, rcRec, rcMark>>
  BY <1>2 DEF StartCheck
<1> DEFINE started == [forced |-> forced, external |-> external,
                       input |-> input, wrote |-> 0, end |-> "open"]
<1>10. checks' = Append(checks, started)
  BY <1>3a
<1>11. Len(checks') = Len(checks) + 1 /\ checks'[Len(checks) + 1] = started
  <2> HIDE DEF started
  <2> QED
    BY <1>7, <1>10
<1> QED
  BY <1>1, <1>4, <1>5, <1>6, <1>8, <1>9, <1>10, <1>11

(* The reality check moves no pick, unless it was asked for an explicit    *)
(* version, whose picks then stand.                                        *)
LEMMA CheckChoice ==
  ASSUME ~Overlap, FlowInv, SequentialInv, ChoiceInv, NEW p \in CheckProcs, Check(p),
         UNCHANGED <<gate, resolver, edits>>
  PROVE  ChoiceInv'
<1>1. \A q \in GateProcs : gate'[q].pc = "idle"
  BY StepsAlone DEF SequentialInv, GateBusy
<1>2. \A q \in CheckProcs : q # p => ~CheckBusy(q)'
  BY StepsAlone, CheckStepsOne DEF SequentialInv, CheckBusy
<1>3. SUFFICES /\ CustomerChoiceStands'
               /\ CheckBusy(p)' /\ ~checks'[rc'[p].run].forced =>
                     /\ rc'[p].input = Effective'
                     /\ rc'[p].draft # NoDraft => KeepsPicks(rc'[p].draft, asg'[Effective'])
  BY <1>1, <1>2 DEF ChoiceInv, MyRun, Consolidates, KeepsPicks
<1>4. Effective \in Nat /\ \A v \in Versions : asg[v] \in Assignment
  BY InForce DEF FlowInv, StoreOK
<1>5. CASE ~CheckBusy(p)
  <2>1. PICK external \in BOOLEAN, forced \in BOOLEAN, input \in Versions :
            /\ ~forced => input = Effective
            /\ checks'[Len(checks) + 1] = [forced |-> forced, external |-> external,
                                           input |-> input, wrote |-> 0, end |-> "open"]
            /\ rc'[p].run = Len(checks) + 1 /\ rc'[p].input = input
            /\ rc'[p].draft \in {NoDraft} \cup IF external THEN {} ELSE Consolidated(input)
            /\ UNCHANGED <<asg, chosen>>
    BY <1>5, CheckStarts
  <2>2. CustomerChoiceStands' /\ Effective' = Effective
    BY <2>1, ChoiceRests, NoWriteAppends DEF ChoiceInv
  <2>3. ASSUME rc'[p].draft # NoDraft PROVE KeepsPicks(rc'[p].draft, asg[input])
    <3>1. rc'[p].draft \in Consolidated(input)
      BY <2>1, <2>3
    <3> QED
      BY <1>4, <3>1, ConsolidatedKeeps
  <2> QED
    BY <2>1, <2>2, <2>3
<1>6. CASE CheckBusy(p) /\ UNCHANGED <<asg, chosen>>
  <2>1. CustomerChoiceStands' /\ Effective' = Effective
    BY <1>6, ChoiceRests, NoWriteAppends DEF ChoiceInv
  <2>2. ASSUME CheckBusy(p)'
        PROVE  /\ rc'[p].input = rc[p].input /\ rc'[p].draft = rc[p].draft
               /\ checks'[rc'[p].run].forced = checks[rc[p].run].forced
    <3>1. rc[p].run \in 1 .. Len(checks)
      BY <1>6 DEF FlowInv, CheckOK, CheckBusy
    <3> QED
      BY <1>6, <2>2, <3>1, CheckGoesOn, RunsKeepTheirMode DEF AskedAs
  <2> QED
    BY <1>6, <2>1, <2>2 DEF ChoiceInv, MyRun, Consolidates
<1>7. CASE CheckBusy(p) /\ Revise(p)
  <2>1. /\ rc[p].pc = "revise" /\ rc[p].wrote = Effective + 1 /\ rc[p].draft \in Assignment
        /\ rc[p].draft.prev = rc[p].input /\ rc[p].input \in Versions
        /\ rc[p].draft # NoDraft
    <3>1. rc[p].pc = "revise" /\ rc[p].wrote # 0
      BY <1>7 DEF Revise, InCheck, FlowInv, CheckOK
    <3>2. /\ rc[p].draft # NoDraft /\ rc[p].draft \in Draft
          /\ rc[p].draft.prev = rc[p].input /\ rc[p].input \in Versions
      BY <3>1 DEF FlowInv, CheckOK, CheckFrame, Consolidates
    <3>3. rc[p].wrote = Effective + 1
      BY <3>1 DEF SequentialInv, CheckCurrent, CheckBusy
    <3> QED
      BY <3>1, <3>2, <3>3, DraftWritten
  <2>2. /\ WriteAssignment(Effective + 1, rc[p].draft)
        /\ chosen' = IF checks[rc[p].run].forced THEN PicksOf(rc[p].draft) ELSE chosen
        /\ rc' = [rc EXCEPT ![p] = CheckIdle]
    BY <1>7, <2>1 DEF Revise, MyRun, CheckEnd
  <2>3. rc[p].input \in Int /\ rc[p].input <= Effective
    BY <2>1, InForce
  <2>4. ASSUME NEW q \in Queries, chosen'[q] # NoEngine
        PROVE  rc[p].draft.owner[q] = chosen'[q] /\ q \in rc[p].draft.pinned
    <3>1. CASE checks[rc[p].run].forced
      BY <2>1, <2>2, <2>4, <3>1, PicksStand
    <3>2. CASE ~checks[rc[p].run].forced
      <4>1. chosen' = chosen /\ KeepsPicks(rc[p].draft, asg[Effective]) /\ Versions # {}
        BY <1>7, <2>1, <2>2, <3>2 DEF ChoiceInv, MyRun, Consolidates
      <4>2. asg[Effective].owner[q] = chosen[q] /\ q \in asg[Effective].pinned
        BY <2>4, <4>1 DEF ChoiceInv, CustomerChoiceStands
      <4> QED
        BY <4>1, <4>2 DEF KeepsPicks
    <3> QED
      BY <3>1, <3>2
  <2>5. CustomerChoiceStands'
    BY <1>4, <2>1, <2>2, <2>3, <2>4, ChoiceWritten
  <2>6. rc'[p].pc = "idle"
    BY <2>2 DEF CheckIdle, FlowInv, CheckOK
  <2> QED
    BY <2>5, <2>6 DEF CheckBusy
<1> QED
  BY <1>5, <1>6, <1>7, CheckGoesOn

(* What the customer picked is in force at first.                          *)
LEMMA ChoiceInit == Init => ChoiceInv
<1>1. SUFFICES ASSUME Init PROVE ChoiceInv
  OBVIOUS
<1>2. PICK saved \in SavedVersions :
         /\ asg = [v \in 1 .. Len(saved) |-> saved[v]]
         /\ chosen = IF saved = <<>> THEN NothingChosen ELSE PicksOf(saved[Len(saved)])
  BY <1>1 DEF Init
<1>3. FlowInv
  BY <1>1, InitEstablishes
<1>4. CustomerChoiceStands
  <2>1. ASSUME Versions # {} PROVE Effective = Len(saved) /\ saved # <<>>
    <3>1. Versions = 1 .. Len(saved) /\ Versions = 1 .. Effective /\ Effective \in Nat
      BY <1>2, <1>3, InForce DEF Versions
    <3>2. Len(saved) \in Nat
      BY DEF SavedVersions
    <3> QED
      BY <2>1, <3>1, <3>2
  <2>2. ASSUME NEW q \in Queries, Versions # {}, chosen[q] # NoEngine
        PROVE  asg[Effective].owner[q] = chosen[q] /\ q \in asg[Effective].pinned
    <3>1. Effective \in Versions /\ asg[Effective] \in Assignment
      BY <1>3, <2>2, InForce
    <3>2. asg[Effective] = saved[Len(saved)] /\ chosen = PicksOf(asg[Effective])
      BY <1>2, <2>1, <2>2, <3>1 DEF Versions
    <3> QED
      BY <2>2, <3>1, <3>2, PicksStand
  <2> QED
    BY <2>2 DEF CustomerChoiceStands
<1> QED
  BY <1>1, <1>4 DEF Init, ChoiceInv, CheckBusy, GateIdle, CheckIdle

(* The invariant with the picks.                                           *)
LEMMA ChoiceInvariant ==
  ASSUME ~Overlap
  PROVE  Spec => [](FlowInv /\ SequentialInv /\ ChoiceInv)
<1>1. FlowInv /\ SequentialInv /\ ChoiceInv /\ [Next]_flowVars => ChoiceInv'
  <2>1. UNCHANGED flowVars /\ ChoiceInv => ChoiceInv'
    BY DEF flowVars, rcVars, ChoiceInv, CustomerChoiceStands, CheckBusy, MyRun, Consolidates,
           CarriesPicks, KeepsPicks, Effective, Versions
  <2> QED
    BY <2>1, GateChoice, CheckChoice, ResolverChoice DEF Next
<1> QED
  BY <1>1, ChoiceInit, SequentialInvariant, PTL DEF Spec

(* The engine the customer picked for a query stays its engine in the      *)
(* version in force, through the gate's re-routes and edits and the        *)
(* consolidations of the reality check, whatever was stopped on the way:   *)
(* until the customer picks again, their picks are found to disagree, or   *)
(* the lineage ends.                                                       *)
THEOREM PicksStandBeforeDesign ==
  ASSUME ~Overlap
  PROVE  Spec => []CustomerChoiceStands
<1>1. ChoiceInv => CustomerChoiceStands
  BY DEF ChoiceInv
<1> QED
  BY <1>1, ChoiceInvariant, PTL
-----------------------------------------------------------------------------

(***************************************************************************)
(* Lineages and ancestries                                                 *)
(***************************************************************************)

(* The walk from a version goes on as the walk from the one before it.     *)
LEMMA WalkShifts ==
  ASSUME NEW v, MaxVersion \in Nat
  PROVE  \A n \in 0 .. MaxVersion - 1 : Walk(v)[n + 1] = Walk(StepBack(v))[n]
<1> DEFINE Bad == {n \in 0 .. MaxVersion - 1 : Walk(v)[n + 1] # Walk(StepBack(v))[n]}
<1>1. Bad = {}
  <2>1. SUFFICES ASSUME Bad # {} PROVE FALSE
    OBVIOUS
  <2>2. Bad \in SUBSET Nat
    OBVIOUS
  <2>3. PICK m \in Bad : \A k \in Bad : m <= k
    <3> HIDE DEF Bad
    <3> QED
      BY <2>1, <2>2, LeastOf
  <2>4. m \in 0 .. MaxVersion - 1 /\ Walk(v)[m + 1] = StepBack(Walk(v)[m])
    BY <2>3, WalkRuns
  <2>5. CASE m = 0
    BY <2>3, <2>4, <2>5, WalkRuns
  <2>6. CASE m # 0
    <3>1. m - 1 \in 0 .. MaxVersion - 1 /\ m - 1 \notin Bad /\ (m - 1) + 1 = m
      BY <2>3, <2>4, <2>6
    <3>2. Walk(v)[m] = Walk(StepBack(v))[m - 1]
      BY <3>1
    <3>3. Walk(StepBack(v))[m] = StepBack(Walk(StepBack(v))[m - 1])
      BY <2>4, <2>6, WalkRuns
    <3> QED
      BY <2>3, <2>4, <3>2, <3>3
  <2> QED
    BY <2>5, <2>6
<1> QED
  BY <1>1

(* It never leaves the versions but to end, and goes down with every step. *)
LEMMA WalkGoesDown ==
  ASSUME LineageWellFormed, Effective \in Nat, MaxVersion \in Nat, NEW v \in Versions \cup {0}
  PROVE  \A n \in 0 .. MaxVersion :
            /\ Walk(v)[n] \in Versions \cup {0}
            /\ Walk(v)[n] = 0 \/ Walk(v)[n] <= v - n
<1> DEFINE Good(n) == /\ Walk(v)[n] \in Versions \cup {0}
                      /\ Walk(v)[n] = 0 \/ Walk(v)[n] <= v - n
           Bad == {n \in 0 .. MaxVersion : ~Good(n)}
<1>1. Versions = 1 .. Effective /\ v \in Nat
  BY DEF LineageWellFormed
<1>2. ASSUME NEW w \in Versions \cup {0}
      PROVE  /\ StepBack(w) \in Versions \cup {0}
             /\ StepBack(w) = 0 \/ StepBack(w) <= w - 1
  <2>1. CASE w \in Versions /\ IsOverrideEdit(w)
    <3>1. asg[w].prev < w /\ asg[w].prev \in Versions
      BY <2>1 DEF LineageWellFormed, IsOverrideEdit, EditSources
    <3> QED
      BY <1>1, <2>1, <3>1 DEF StepBack
  <2>2. CASE ~(w \in Versions /\ IsOverrideEdit(w))
    BY <2>2 DEF StepBack
  <2> QED
    BY <2>1, <2>2
<1>3. Bad = {}
  <2>1. SUFFICES ASSUME Bad # {} PROVE FALSE
    OBVIOUS
  <2>2. Bad \in SUBSET Nat
    OBVIOUS
  <2>3. PICK m \in Bad : \A k \in Bad : m <= k
    <3> HIDE DEF Bad
    <3> QED
      BY <2>1, <2>2, LeastOf
  <2>4. CASE m = 0
    BY <1>1, <2>3, <2>4, WalkRuns
  <2>5. CASE m # 0
    <3>1. m - 1 \in 0 .. MaxVersion /\ m \in 1 .. MaxVersion /\ m - 1 \notin Bad
      BY <2>3, <2>5
    <3>2. Good(m - 1) /\ Walk(v)[m] = StepBack(Walk(v)[m - 1])
      BY <3>1, WalkRuns
    <3>3. Walk(v)[m] \in Versions \cup {0}
      BY <1>2, <3>2
    <3>4. Walk(v)[m] = 0 \/ Walk(v)[m] <= v - m
      <4>1. StepBack(0) = 0
        BY <1>1 DEF StepBack
      <4>2. Walk(v)[m] = 0 \/ (Walk(v)[m] <= Walk(v)[m - 1] - 1 /\ Walk(v)[m - 1] <= v - (m - 1))
        BY <1>2, <3>2, <4>1
      <4>3. Walk(v)[m] \in Nat /\ Walk(v)[m - 1] \in Nat
        BY <1>1, <3>2, <3>3
      <4> QED
        BY <1>1, <3>1, <4>2, <4>3
    <3> QED
      BY <2>3, <3>3, <3>4
  <2> QED
    BY <2>4, <2>5
<1> QED
  BY <1>3

(* The lineage of a version: itself, and that of the one it continues.     *)
LineageEq ==
    /\ Lineage(0) = {}
    /\ \A v \in Versions :
          Lineage(v) = {v} \cup IF IsOverrideEdit(v) THEN Lineage(asg[v].prev) ELSE {}

LEMMA LineageUnfolds ==
  ASSUME LineageWellFormed, Effective \in Nat, Effective <= MaxVersion, MaxVersion \in Nat
  PROVE  LineageEq
<1>1. Versions = 1 .. Effective
  BY DEF LineageWellFormed
<1>2. Lineage(0) = {}
  <2>1. \A n \in 0 .. MaxVersion : Walk(0)[n] = 0
    BY <1>1, WalkGoesDown
  <2> QED
    BY <1>1, <2>1 DEF Lineage
<1>3. ASSUME NEW v \in Versions
      PROVE  Lineage(v) = {v} \cup Lineage(StepBack(v))
  <2> DEFINE b == StepBack(v)
  <2>1. b \in Versions \cup {0} /\ v \in 1 .. MaxVersion
    <3>1. v \in 1 .. MaxVersion
      BY <1>1
    <3>2. Walk(v)[1] = b
      <4>1. 1 \in 1 .. MaxVersion /\ 1 - 1 = 0
        BY <3>1
      <4>2. Walk(v)[1] = StepBack(Walk(v)[1 - 1]) /\ Walk(v)[0] = v
        BY <4>1, WalkRuns
      <4> QED
        BY <4>1, <4>2
    <3> QED
      BY <3>1, <3>2, WalkGoesDown
  <2> HIDE DEF b
  <2>2. Walk(v)[0] = v /\ \A n \in 0 .. MaxVersion - 1 : Walk(v)[n + 1] = Walk(b)[n]
    BY WalkRuns, WalkShifts DEF b
  <2>3. Walk(b)[MaxVersion] \notin Versions
    <3>1. b <= v - 1
      <4>1. Walk(v)[1] = b
        <5>1. 0 \in 0 .. MaxVersion - 1 /\ 0 + 1 = 1
          BY <2>1
        <5>2. Walk(v)[0 + 1] = Walk(b)[0] /\ Walk(b)[0] = b
          BY <2>2, <5>1, WalkRuns
        <5> QED
          BY <5>1, <5>2
      <4>2. b = 0 \/ b <= v - 1
        BY <2>1, <4>1, WalkGoesDown
      <4> QED
        BY <2>1, <4>2
    <3>2. Walk(b)[MaxVersion] \in Versions \cup {0}
          /\ (Walk(b)[MaxVersion] = 0 \/ Walk(b)[MaxVersion] <= b - MaxVersion)
      BY <2>1, WalkGoesDown
    <3> QED
      BY <1>1, <2>1, <3>1, <3>2
  <2>4. ASSUME NEW w \in Lineage(v) PROVE w \in {v} \cup Lineage(b)
    <3>1. PICK n \in 0 .. MaxVersion : w = Walk(v)[n] /\ w \in Versions
      BY <2>4 DEF Lineage
    <3>2. CASE n = 0
      BY <2>2, <3>1, <3>2
    <3>3. CASE n # 0
      <4>1. n - 1 \in 0 .. MaxVersion - 1 /\ (n - 1) + 1 = n /\ n - 1 \in 0 .. MaxVersion
        BY <3>3
      <4>2. w = Walk(b)[n - 1]
        BY <2>2, <3>1, <4>1
      <4> QED
        BY <3>1, <4>1, <4>2 DEF Lineage
    <3> QED
      BY <3>2, <3>3
  <2>5. ASSUME NEW w \in Lineage(b) PROVE w \in Lineage(v)
    <3>1. PICK n \in 0 .. MaxVersion : w = Walk(b)[n] /\ w \in Versions
      BY <2>5 DEF Lineage
    <3>2. n \in 0 .. MaxVersion - 1 /\ n + 1 \in 0 .. MaxVersion
      BY <2>3, <3>1
    <3> QED
      BY <2>2, <3>1, <3>2 DEF Lineage
  <2>6. v \in Lineage(v)
    BY FirstOfItsLineage
  <2> QED
    BY <2>4, <2>5, <2>6 DEF b
<1>4. ASSUME NEW v \in Versions
      PROVE  Lineage(v) = {v} \cup IF IsOverrideEdit(v) THEN Lineage(asg[v].prev) ELSE {}
  BY <1>2, <1>3 DEF StepBack
<1> QED
  BY <1>2, <1>4 DEF LineageEq

(* The ancestry of a version: itself, and that of the one it was made from.*)
AncestryEq ==
    /\ Ancestry(0) = {}
    /\ \A v \in Versions : Ancestry(v) = {v} \cup Ancestry(asg[v].prev)

(* A version was made from one before it, or from none.                    *)
LEMMA MadeFromEarlier ==
  ASSUME FlowInv, NEW v \in Versions
  PROVE  asg[v].prev \in 0 .. v - 1 /\ (asg[v].prev # 0 => asg[v].prev \in Versions)
<1>1. asg[v].prev \in Nat /\ v \in Nat /\ asg[v].prev < v
  BY InForce DEF FlowInv, StoreOK, LineageWellFormed, Assignment
<1>2. v <= Effective /\ Effective \in Nat /\ Versions = 1 .. Effective
  BY InForce
<1> QED
  BY <1>1, <1>2

LEMMA AncestryUnfolds ==
  ASSUME FlowInv
  PROVE  AncestryEq
<1> DEFINE Into(f, w) ==
              IF w \notin Versions THEN {}
              ELSE {w} \cup IF asg[w].prev < w THEN f[asg[w].prev] ELSE {}
           Runs(f, m) == f = [w \in 0 .. m |-> Into(f, w)]
           Bad == {m \in Nat : ~ \E f : Runs(f, m)}
           B == CHOOSE f : Runs(f, MaxVersion)
<1>0. /\ Versions = 1 .. Effective /\ Effective \in Nat /\ Effective <= MaxVersion
      /\ MaxVersion \in Nat /\ \A w \in Versions : asg[w].prev \in 0 .. w - 1
  BY InForce, MadeFromEarlier, AssignmentAssumption
<1>1. ASSUME NEW f, NEW g, NEW w \in Nat, \A u \in 0 .. w - 1 : f[u] = g[u]
      PROVE  Into(f, w) = Into(g, w)
  <2>1. CASE w \in Versions
    BY <1>0, <1>1, <2>1
  <2>2. CASE w \notin Versions
    BY <2>2
  <2> QED
    BY <2>1, <2>2
<1> HIDE DEF Into
<1>2. Bad = {}
  <2>1. SUFFICES ASSUME Bad # {} PROVE FALSE
    OBVIOUS
  <2>2. PICK m \in Bad : \A k \in Bad : m <= k
    <3>1. Bad \in SUBSET Nat
      OBVIOUS
    <3> HIDE DEF Bad
    <3> QED
      BY <2>1, <3>1, LeastOf
  <2>3. CASE m = 0
    <3> DEFINE g == [w \in 0 .. 0 |-> Into(<<>>, w)]
    <3>1. Into(<<>>, 0) = Into(g, 0)
      <4>1. \A u \in 0 .. 0 - 1 : <<>>[u] = g[u]
        OBVIOUS
      <4> HIDE DEF g
      <4> QED
        BY <1>1, <4>1
    <3>2. \A w \in 0 .. 0 : g[w] = Into(g, w)
      <4>1. g[0] = Into(<<>>, 0)
        OBVIOUS
      <4> HIDE DEF g
      <4> QED
        BY <3>1, <4>1
    <3>3. Runs(g, 0)
      BY <3>2
    <3> QED
      BY <2>3, <3>3
  <2>4. CASE m # 0
    <3>1. m - 1 \in Nat /\ m - 1 \notin Bad
      BY <2>2, <2>4
    <3>2. PICK f : Runs(f, m - 1)
      BY <3>1
    <3> DEFINE g == [w \in 0 .. m |-> IF w = m THEN Into(f, m) ELSE f[w]]
    <3>3. \A w \in 0 .. m : g[w] = Into(g, w)
      <4>1. \A w \in 0 .. m - 1 : f[w] = Into(f, w)
        BY <3>2
      <4>2. (\A w \in 0 .. m - 1 : g[w] = f[w]) /\ g[m] = Into(f, m)
        BY <3>1
      <4>3. ASSUME NEW w \in 0 .. m PROVE Into(f, w) = Into(g, w)
        <5>1. w \in Nat /\ \A u \in 0 .. w - 1 : f[u] = g[u]
          <6> HIDE DEF g
          <6> QED
            BY <3>1, <4>2
        <5> HIDE DEF g
        <5> QED
          BY <1>1, <5>1
      <4> HIDE DEF g
      <4>4. \A w \in 0 .. m : w = m \/ w \in 0 .. m - 1
        BY <3>1
      <4> QED
        BY <4>1, <4>2, <4>3, <4>4
    <3>4. Runs(g, m)
      BY <3>3
    <3> QED
      BY <3>4
  <2> QED
    BY <2>3, <2>4
<1>3. Runs(B, MaxVersion)
  <2>1. PICK f : Runs(f, MaxVersion)
    BY <1>0, <1>2
  <2> QED
    BY <2>1
<1>4. \A v : Ancestry(v) = B[v]
  BY DEF Ancestry, Into
<1> HIDE DEF B
<1>5. \A v \in 0 .. MaxVersion : B[v] = Into(B, v)
  BY <1>3
<1>6. Ancestry(0) = {}
  <2>1. 0 \in 0 .. MaxVersion /\ 0 \notin Versions
    BY <1>0
  <2>2. Into(B, 0) = {}
    BY <2>1 DEF Into
  <2> QED
    BY <1>4, <1>5, <2>1, <2>2
<1>7. ASSUME NEW v \in Versions PROVE Ancestry(v) = {v} \cup Ancestry(asg[v].prev)
  <2>1. B[v] = Into(B, v) /\ asg[v].prev < v
    BY <1>0, <1>5
  <2> QED
    BY <1>4, <2>1 DEF Into
<1> QED
  BY <1>6, <1>7 DEF AncestryEq

(* Both equations hold of every state of the invariant.                    *)
LEMMA Unfold == FlowInv => LineageEq /\ AncestryEq
<1>1. ASSUME FlowInv PROVE LineageEq
  <2>1. LineageWellFormed
    BY <1>1 DEF FlowInv, StoreOK
  <2>2. Effective \in Nat /\ Effective <= MaxVersion /\ MaxVersion \in Nat
    BY <1>1, InForce, AssignmentAssumption
  <2> QED
    BY <2>1, <2>2, LineageUnfolds
<1> QED
  BY <1>1, AncestryUnfolds

(* Of the next one too.                                                    *)
LEMMA UnfoldNext == FlowInv' => LineageEq' /\ AncestryEq'
  BY Unfold, PTL

(* A version keeps its lineage and its ancestry when versions are added.   *)
LEMMA WalksStay ==
  ASSUME FlowInv, FlowInv', Appends
  PROVE  \A v \in Versions \cup {0} : Lineage(v)' = Lineage(v) /\ Ancestry(v)' = Ancestry(v)
<1> DEFINE Good(v) == Lineage(v)' = Lineage(v) /\ Ancestry(v)' = Ancestry(v)
           Bad == {v \in Versions : ~Good(v)}
<1>1. /\ LineageEq /\ LineageEq' /\ AncestryEq /\ AncestryEq'
      /\ \A v \in Versions : v \in Versions' /\ asg'[v] = asg[v]
  BY Unfold, UnfoldNext DEF Appends, Versions
<1>2. Good(0)
  BY <1>1 DEF LineageEq, AncestryEq
<1>3. Bad \in SUBSET Nat
  BY InForce
<1>4. Bad = {}
  <2>1. SUFFICES ASSUME Bad # {} PROVE FALSE
    OBVIOUS
  <2>2. PICK m \in Bad : \A k \in Bad : m <= k
    <3> HIDE DEF Bad
    <3> QED
      BY <1>3, <2>1, LeastOf
  <2>3. m \in Versions /\ m \in Nat
    BY <1>3, <2>2
  <2> DEFINE u == asg[m].prev
  <2>4. u \in 0 .. m - 1 /\ (u # 0 => u \in Versions)
    BY <2>3, MadeFromEarlier
  <2>5. Good(u)
    <3> HIDE DEF u, Good
    <3>1. CASE u = 0
      BY <1>2, <3>1
    <3>2. CASE u # 0
      <4>1. u \notin Bad
        <5>1. ~(m <= u)
          BY <2>3, <2>4
        <5> HIDE DEF Bad
        <5> QED
          BY <2>2, <5>1
      <4> QED
        BY <2>4, <3>2, <4>1
    <3> QED
      BY <3>1, <3>2
  <2>6. asg'[m].prev = u /\ IsOverrideEdit(m)' = IsOverrideEdit(m) /\ m \in Versions'
    BY <1>1, <2>3 DEF IsOverrideEdit
  <2>7. Lineage(m) = {m} \cup IF IsOverrideEdit(m) THEN Lineage(u) ELSE {}
    BY <1>1, <2>3 DEF LineageEq
  <2>8. Ancestry(m) = {m} \cup Ancestry(u)
    BY <1>1, <2>3 DEF AncestryEq
  <2>9. Lineage(m)' = {m} \cup IF IsOverrideEdit(m)' THEN Lineage(asg[m].prev)' ELSE {}
    BY <1>1, <2>6 DEF LineageEq
  <2>10. Ancestry(m)' = {m} \cup Ancestry(asg[m].prev)'
    BY <1>1, <2>6 DEF AncestryEq
  <2>11. Good(m)
    BY <2>5, <2>6, <2>7, <2>8, <2>9, <2>10
  <2> QED
    BY <2>2, <2>11
<1> QED
  BY <1>2, <1>4

(* A resolution is made from nothing.                                      *)
ResolutionsStart == \A v \in Versions : asg[v].source = "resolved" => asg[v].prev = 0

(* What a version descends from, and the consolidation its lineage goes    *)
(* back to: the walk ends at the nearest, and at none only if there is     *)
(* none.                                                                   *)
Descends(v) ==
    /\ \A w \in Ancestry(v) : w \in Versions /\ w <= v
    /\ Lineage(v) \subseteq Ancestry(v)
    /\ (\A w \in Lineage(v) : ~IsRealityCheckProduced(w)) => Ancestry(v) = Lineage(v)
    /\ \A w \in Lineage(v) : IsRealityCheckProduced(w) =>
          \A x \in Ancestry(v) : IsRealityCheckProduced(x) => x <= w

LEMMA LineagesDescend ==
  ASSUME FlowInv, ResolutionsStart
  PROVE  \A v \in Versions \cup {0} : Descends(v)
<1> DEFINE Bad == {v \in Versions : ~Descends(v)}
<1>1. LineageEq /\ AncestryEq
  BY Unfold
<1>2. Descends(0)
  BY <1>1 DEF LineageEq, AncestryEq, Descends
<1>3. Bad \in SUBSET Nat
  BY InForce
<1>4. Bad = {}
  <2>1. SUFFICES ASSUME Bad # {} PROVE FALSE
    OBVIOUS
  <2>2. PICK m \in Bad : \A k \in Bad : m <= k
    <3> HIDE DEF Bad
    <3> QED
      BY <1>3, <2>1, LeastOf
  <2>3. m \in Versions /\ m \in Nat
    BY <1>3, <2>2
  <2> DEFINE u == asg[m].prev
  <2>4. u \in 0 .. m - 1 /\ (u # 0 => u \in Versions)
    BY <2>3, MadeFromEarlier
  <2>5. Descends(u)
    <3> HIDE DEF u
    <3>1. CASE u = 0
      BY <1>2, <3>1
    <3>2. CASE u # 0
      <4>1. u \notin Bad
        <5>1. ~(m <= u)
          BY <2>3, <2>4
        <5> HIDE DEF Bad
        <5> QED
          BY <2>2, <5>1
      <4> QED
        BY <2>4, <3>2, <4>1
    <3> QED
      BY <3>1, <3>2
  <2>6. /\ Lineage(m) = {m} \cup IF IsOverrideEdit(m) THEN Lineage(u) ELSE {}
        /\ Ancestry(m) = {m} \cup Ancestry(u)
    BY <1>1, <2>3 DEF LineageEq, AncestryEq
  <2>7. \/ IsRealityCheckProduced(m) /\ ~IsOverrideEdit(m)
        \/ ~IsRealityCheckProduced(m) /\ IsOverrideEdit(m)
        \/ ~IsRealityCheckProduced(m) /\ ~IsOverrideEdit(m) /\ u = 0
    <3>1. asg[m].source \in Source
      BY <2>3 DEF FlowInv, StoreOK, Assignment
    <3> QED
      BY <2>3, <3>1
         DEF Source, IsRealityCheckProduced, IsOverrideEdit, EditSources, ResolutionsStart
  <2>8. \A w \in Ancestry(u) : w \in Versions /\ w <= u /\ w \in Nat
    BY <2>5, InForce DEF Descends
  <2>9. \A w \in Ancestry(m) : w \in Versions /\ w <= m
    BY <2>3, <2>4, <2>6, <2>8
  <2> HIDE DEF u
  <2>10. CASE IsRealityCheckProduced(m) /\ ~IsOverrideEdit(m)
    BY <2>2, <2>6, <2>9, <2>10 DEF Descends
  <2>11. CASE ~IsRealityCheckProduced(m) /\ IsOverrideEdit(m)
    BY <2>2, <2>5, <2>6, <2>9, <2>11 DEF Descends
  <2>12. CASE ~IsRealityCheckProduced(m) /\ ~IsOverrideEdit(m) /\ u = 0
    BY <1>1, <2>2, <2>6, <2>9, <2>12 DEF Descends, AncestryEq
  <2> QED
    BY <2>7, <2>10, <2>11, <2>12
<1> QED
  BY <1>2, <1>4

(* The first version of the walk in a set that meets the lineage is in the *)
(* set, and in the lineage.                                                *)
LEMMA FirstOfMet ==
  ASSUME MaxVersion \in Nat, NEW v, NEW set \in SUBSET Versions, set \cap Lineage(v) # {}
  PROVE  FirstOf(v, set) \in set \cap Lineage(v)
<1> DEFINE met == {n \in 0 .. MaxVersion : Walk(v)[n] \in set}
<1>1. met # {} /\ met \in SUBSET Nat
  BY DEF Lineage
<1>2. PICK m \in met : \A k \in met : m <= k
  <2> HIDE DEF met
  <2> QED
    BY <1>1, LeastOf
<1>3. Min(met) = m
  <2> HIDE DEF met
  <2>1. m \in met /\ \A y \in met : m <= y
    BY <1>2
  <2>2. \A x \in met : (\A y \in met : x <= y) => x = m
    BY <1>1, <1>2
  <2> QED
    BY <2>1, <2>2, Zenon DEF Min
<1>4. FirstOf(v, set) = Walk(v)[m]
  BY <1>3 DEF FirstOf
<1> QED
  BY <1>2, <1>4 DEF Lineage

(***************************************************************************)
(* The runs of the reality check and the versions they leave               *)
(***************************************************************************)

(* What is known of the runs: a process's run is the one it has in the     *)
(* history, open until its output, or its version, is written; a run that  *)
(* is done with a version wrote it; and the gate writes only what          *)
(* continues a lineage.                                                    *)
RunsInv ==
    /\ \A p \in CheckProcs : CheckBusy(p) =>
          /\ MyRun(p).wrote = rc[p].wrote /\ MyRun(p).input = rc[p].input
          /\ Consolidates(p) => ~MyRun(p).external /\ rc[p].draft.source = "reality_check"
          /\ MyRun(p).end = IF rc[p].pc \in {"record", "settle"} /\ rc[p].wrote = 0
                            THEN "done" ELSE "open"
    /\ \A r \in 1 .. Len(checks) :
          /\ checks[r].input \in Versions
          /\ checks[r].end = "done" /\ checks[r].wrote # 0 =>
                checks[r].wrote \in Versions /\ IsRealityCheckProduced(checks[r].wrote)
    /\ \A p \in GateProcs : gate[p].pc \in {"reroute", "rewrite", "write"} =>
          gate[p].draft.source \in EditSources
    /\ ResolutionsStart

(* A write as the next version adds one, and changes none.                 *)
LEMMA NextIsNew ==
  ASSUME NEW a, NEW v, WriteAssignment(v, a)
  PROVE  Versions' = Versions \cup {v} /\ asg'[v] = a
  BY DEF WriteAssignment, Put, Versions

(* The gate writes what continues a lineage.                               *)
LEMMA GateWrites ==
  ASSUME ~Overlap, FlowInv, SequentialInv, RunsInv, NEW p \in GateProcs, Gate(p)
  PROVE  /\ gate'[p].pc \in {"reroute", "rewrite", "write"} => gate'[p].draft.source \in EditSources
         /\ \A v \in Versions' : v \in Versions \/ asg'[v].source \in EditSources
<1>1. gate \in [GateProcs -> GateFrame] /\ gate[p] \in GateFrame
  BY DEF FlowInv, GateOK
<1>2. UNCHANGED asg => Versions' = Versions
  BY DEF Versions
<1>3. GateIdle.pc = "idle"
  BY DEF GateIdle
<1>4. CASE PutAssignments(p) \/ GetAssignments(p) \/ StartDesign(p)
  <2>1. PICK op, base : GateBegins(p, op, base)
    BY <1>4 DEF PutAssignments, GetAssignments, StartDesign
  <2> DEFINE frame == [GateIdle EXCEPT !.op = op, !.base = base]
  <2>2. UNCHANGED asg
    BY <2>1 DEF GateBegins
  <2>3. CASE gate' = [gate EXCEPT ![p] = Onward(frame)]
    <3>1. Onward(frame).pc \in {"idle", "edit"}
      BY DEF Onward, GateIdle
    <3> HIDE DEF frame
    <3> QED
      BY <1>1, <1>2, <2>2, <2>3, <3>1
  <2>4. ASSUME NEW draft \in Rerouted(Effective),
               gate' = [gate EXCEPT ![p] =
                  [frame EXCEPT !.pc = "reroute", !.input = Effective, !.draft = draft]]
        PROVE  gate'[p].draft.source \in EditSources
    <3>1. draft.source \in EditSources
      BY DEF Rerouted, ReroutedTo, EditSources
    <3>2. gate'[p].draft = draft
      BY <1>1, <2>4 DEF GateIdle
    <3> QED
      BY <3>1, <3>2
  <2> QED
    BY <1>2, <2>1, <2>2, <2>3, <2>4 DEF GateBegins
<1>5. CASE Reroute(p)
  <2>1. gate[p].draft.source \in EditSources /\ UNCHANGED asg
    BY <1>5 DEF Reroute, InGate, RunsInv
  <2>2. \/ gate'[p] = Onward(gate[p])
        \/ gate'[p].draft = gate[p].draft
    BY <1>1, <1>5 DEF Reroute, GateGoesOn, GateFrame
  <2>3. Onward(gate[p]).pc \in {"idle", "edit"}
    BY DEF Onward, GateIdle
  <2> QED
    BY <1>2, <2>1, <2>2, <2>3
<1>6. CASE Rewrite(p)
  <2>1. gate[p].draft.source \in EditSources /\ WriteAssignment(gate[p].input + 1, gate[p].draft)
    BY <1>6 DEF Rewrite, InGate, RunsInv
  <2>2. gate'[p] = Onward(gate[p])
    BY <1>1, <1>6 DEF Rewrite, GateGoesOn
  <2>3. Onward(gate[p]).pc \in {"idle", "edit"}
    BY DEF Onward, GateIdle
  <2> QED
    BY <2>1, <2>2, <2>3, NextIsNew
<1>7. CASE Edit(p)
  <2>1. PICK draft \in Edits(Effective) :
           gate' = [gate EXCEPT ![p] =
              [gate[p] EXCEPT !.pc = "write", !.input = Effective, !.draft = draft]]
    BY <1>7 DEF Edit
  <2>2. draft.source \in EditSources
    BY DEF Edits, Edited, EditSources
  <2>3. gate'[p].draft = draft
    BY <1>1, <2>1 DEF GateFrame
  <2>4. UNCHANGED asg
    BY <1>7 DEF Edit
  <2> QED
    BY <1>2, <2>2, <2>3, <2>4
<1>8. CASE WriteEdit(p)
  <2>1. gate[p].draft.source \in EditSources /\ WriteAssignment(gate[p].input + 1, gate[p].draft)
    BY <1>8 DEF WriteEdit, InGate, RunsInv
  <2>2. gate'[p] = GateIdle
    BY <1>1, <1>8 DEF WriteEdit, GateEnd
  <2> QED
    BY <1>3, <2>1, <2>2, NextIsNew
<1>9. CASE GateStops(p)
  BY <1>1, <1>2, <1>3, <1>9 DEF GateStops, GateEnd
<1> QED
  BY <1>4, <1>5, <1>6, <1>7, <1>8, <1>9 DEF Gate

(* An assignment phase writes a resolution.                                *)
LEMMA ResolverWrites ==
  ASSUME FlowInv, NEW p \in Resolvers, Resolve(p)
  PROVE  \A v \in Versions' : \/ v \in Versions /\ asg'[v] = asg[v]
                              \/ asg'[v].source = "resolved" /\ asg'[v].prev = 0
<1>1. CASE UNCHANGED asg
  BY <1>1 DEF Versions
<1>2. CASE WriteResolution(p)
  <2>1. PICK owner : WriteAssignment(resolver[p], Resolution(owner))
    BY <1>2 DEF WriteResolution
  <2> QED
    BY <2>1 DEF WriteAssignment, Put, Versions, Resolution
<1> QED
  BY <1>1, <1>2 DEF Resolve, StartResolver, ResolverStops

(* Runs are of versions that stay.                                         *)
LEMMA GateRuns ==
  ASSUME ~Overlap, FlowInv, SequentialInv, RunsInv, NEW p \in GateProcs, Gate(p), Appends,
         UNCHANGED <<rcVars, resolver>>
  PROVE  RunsInv'
<1>1. \A v \in Versions : v \in Versions' /\ asg'[v] = asg[v]
  BY DEF Appends, Versions
<1>2. UNCHANGED <<rc, checks>> /\ \A q \in GateProcs : q # p => gate'[q] = gate[q]
  BY GateStepsOne DEF rcVars
<1>3. /\ gate'[p].pc \in {"reroute", "rewrite", "write"} => gate'[p].draft.source \in EditSources
      /\ \A v \in Versions' : v \in Versions \/ asg'[v].source \in EditSources
  BY GateWrites
<1>4. "resolved" \notin EditSources
  BY DEF EditSources
<1>5. ResolutionsStart'
  BY <1>1, <1>3, <1>4 DEF RunsInv, ResolutionsStart
<1>6. \A q \in GateProcs : gate'[q].pc \in {"reroute", "rewrite", "write"} =>
          gate'[q].draft.source \in EditSources
  BY <1>2, <1>3 DEF RunsInv
<1> QED
  BY <1>1, <1>2, <1>5, <1>6 DEF RunsInv, CheckBusy, MyRun, Consolidates, IsRealityCheckProduced

LEMMA ResolverRuns ==
  ASSUME FlowInv, RunsInv, NEW p \in Resolvers, Resolve(p), Appends,
         UNCHANGED <<gate, rcVars>>
  PROVE  RunsInv'
<1>1. \A v \in Versions : v \in Versions' /\ asg'[v] = asg[v]
  BY DEF Appends, Versions
<1>2. UNCHANGED <<rc, checks, gate>>
  BY DEF rcVars
<1>3. ResolutionsStart'
  BY <1>1, ResolverWrites DEF RunsInv, ResolutionsStart
<1> QED
  BY <1>1, <1>2, <1>3 DEF RunsInv, CheckBusy, MyRun, Consolidates, IsRealityCheckProduced

(* A run that ends keeps what it wrote.                                    *)
LEMMA RunEndsAs ==
  ASSUME FlowInv, NEW p \in CheckProcs, CheckBusy(p), NEW how, RunEnds(p, how)
  PROVE  /\ checks'[rc[p].run].end = how /\ checks'[rc[p].run].wrote = checks[rc[p].run].wrote
         /\ Len(checks') = Len(checks)
<1>1. checks \in Seq(CheckRun) /\ rc[p].run \in 1 .. Len(checks)
  BY DEF FlowInv, RunsOK, CheckOK, CheckBusy
<1>2. checks[rc[p].run] \in CheckRun
  BY <1>1
<1>3. checks'[rc[p].run] = [checks[rc[p].run] EXCEPT !.end = how] /\ Len(checks') = Len(checks)
  BY <1>1 DEF RunEnds
<1> QED
  BY <1>2, <1>3 DEF CheckRun

(* A step of a run under way: what it makes of the run, and of the run's   *)
(* number.                                                                 *)
LEMMA CheckGoesOnAs ==
  ASSUME FlowInv, RunsInv, NEW p \in CheckProcs, Check(p), CheckBusy(p)
  PROVE  /\ Len(checks') = Len(checks)
         /\ CheckBusy(p)' =>
               /\ checks'[rc[p].run].wrote = rc'[p].wrote
               /\ checks'[rc[p].run].end =
                     IF rc'[p].pc \in {"record", "settle"} /\ rc'[p].wrote = 0
                     THEN "done" ELSE "open"
         /\ ~CheckBusy(p)' => checks'[rc[p].run].wrote = rc[p].wrote
         /\ checks'[rc[p].run].end = "done" => rc[p].wrote = 0 \/ Revise(p)
<1> DEFINE run == rc[p].run
<1>1. /\ rc \in [CheckProcs -> CheckFrame] /\ rc[p] \in CheckFrame
      /\ checks \in Seq(CheckRun) /\ run \in 1 .. Len(checks) /\ checks[run] \in CheckRun
  <2>1. /\ rc \in [CheckProcs -> CheckFrame] /\ rc[p] \in CheckFrame
        /\ checks \in Seq(CheckRun) /\ run \in 1 .. Len(checks)
    BY DEF FlowInv, RunsOK, CheckOK, CheckBusy
  <2> QED
    BY <2>1
<1>2. /\ checks[run].wrote = rc[p].wrote
      /\ checks[run].end = IF rc[p].pc \in {"record", "settle"} /\ rc[p].wrote = 0
                           THEN "done" ELSE "open"
  BY DEF RunsInv, MyRun
<1>3. CheckIdle.pc = "idle"
  BY DEF CheckIdle
<1>4. "done" # "open" /\ "stopped" # "done" /\ "broken" # "done"
  OBVIOUS
<1>5. CASE Request(p) \/ MarkAwaiting(p)
  <2>1. /\ rc[p].pc \in {"request", "mark"} /\ rc'[p].pc \in {"mark", "keep"}
        /\ rc'[p].wrote = rc[p].wrote /\ UNCHANGED checks
    BY <1>1, <1>5 DEF Request, MarkAwaiting, CheckGoto, CheckFrame, InCheck
  <2> QED
    BY <1>2, <2>1 DEF CheckBusy
<1>6. CASE Keep(p)
  <2> DEFINE number == NumberToWrite(p)
  <2>1. /\ rc' = [rc EXCEPT ![p].pc = "output", ![p].wrote = number]
        /\ checks' = [checks EXCEPT ![run].wrote = number] /\ rc[p].pc = "keep"
    BY <1>6 DEF Keep, InCheck
  <2> HIDE DEF number
  <2>2. rc'[p].pc = "output" /\ rc'[p].wrote = number
    BY <1>1, <2>1 DEF CheckFrame
  <2>3. /\ checks'[run].wrote = number /\ checks'[run].end = checks[run].end
        /\ Len(checks') = Len(checks)
    <3>1. checks'[run] = [checks[run] EXCEPT !.wrote = number] /\ Len(checks') = Len(checks)
      BY <1>1, <2>1
    <3> QED
      BY <1>1, <3>1 DEF CheckRun
  <2> QED
    BY <1>2, <2>1, <2>2, <2>3 DEF CheckBusy
<1>7. CASE Output(p)
  <2>1. rc[p].pc = "output" /\ rc'[p].pc \in {"idle", "record"}
        /\ (rc'[p].pc = "record" => rc'[p].wrote = rc[p].wrote)
    BY <1>1, <1>3, <1>7 DEF Output, InCheck, CheckFrame
  <2>2. CASE rc[p].wrote = 0
    <3>1. RunEnds(p, "done")
      BY <1>7, <2>2 DEF Output
    <3> QED
      BY <1>2, <2>1, <2>2, <3>1, RunEndsAs DEF CheckBusy
  <2>3. CASE rc[p].wrote # 0
    <3>1. UNCHANGED checks
      BY <1>7, <2>3 DEF Output
    <3> QED
      BY <1>2, <2>1, <2>3, <3>1 DEF CheckBusy
  <2> QED
    BY <2>2, <2>3
<1>8. CASE RecordRun(p)
  <2>1. /\ rc[p].pc = "record" /\ rc'[p].pc = "settle"
        /\ rc'[p].wrote = rc[p].wrote /\ UNCHANGED checks
    BY <1>1, <1>8 DEF RecordRun, CheckGoto, CheckFrame, InCheck
  <2> QED
    BY <1>2, <2>1 DEF CheckBusy
<1>9. CASE Settle(p)
  <2>1. /\ rc[p].pc = "settle" /\ UNCHANGED checks
        /\ rc[p].wrote = 0 => rc'[p].pc = "idle"
        /\ rc[p].wrote # 0 => rc'[p].pc = "revise" /\ rc'[p].wrote = rc[p].wrote
    BY <1>1, <1>3, <1>9 DEF Settle, CheckGoto, CheckEnd, CheckFrame, InCheck
  <2> QED
    BY <1>2, <2>1 DEF CheckBusy
<1>10. CASE Revise(p)
  <2>1. RunEnds(p, "done") /\ rc'[p].pc = "idle"
    BY <1>1, <1>3, <1>10 DEF Revise, CheckEnd
  <2> QED
    BY <1>2, <1>10, <2>1, RunEndsAs DEF CheckBusy
<1>11. CASE CheckStops(p)
  <2>1. rc'[p].pc = "idle"
    BY <1>1, <1>3, <1>11 DEF CheckStops, CheckEnd
  <2>2. \/ UNCHANGED checks
        \/ RunEnds(p, "stopped")
        \/ RunEnds(p, "broken")
    BY <1>11 DEF CheckStops
  <2> QED
    BY <1>2, <2>1, <2>2, RunEndsAs DEF CheckBusy
<1> QED
  BY <1>5, <1>6, <1>7, <1>8, <1>9, <1>10, <1>11
     DEF Check, RunCheck, PrepareCheck, StartCheck, InCheck, CheckBusy

LEMMA CheckRuns ==
  ASSUME ~Overlap, FlowInv, FlowInv', SequentialInv, RunsInv, NEW p \in CheckProcs, Check(p), Appends,
         UNCHANGED <<gate, resolver, edits>>
  PROVE  RunsInv'
<1>1. \A v \in Versions : v \in Versions' /\ asg'[v] = asg[v]
  BY DEF Appends, Versions
<1>2. \A q \in CheckProcs : q # p => ~CheckBusy(q)'
  BY StepsAlone, CheckStepsOne DEF SequentialInv, CheckBusy
<1>3. /\ Len(checks) \in Nat
      /\ \A r \in 1 .. Len(checks) : checks'[r].input = checks[r].input
      /\ \A r \in 1 .. Len(checks) : r # rc[p].run \/ ~CheckBusy(p) => checks'[r] = checks[r]
  <2>1. checks \in Seq(CheckRun)
    BY DEF FlowInv, RunsOK
  <2> QED
    BY <2>1, RunsKeepTheirMode DEF AskedAs
<1>4. SUFFICES
         /\ CheckBusy(p)' =>
               /\ checks'[rc'[p].run].wrote = rc'[p].wrote /\ checks'[rc'[p].run].input = rc'[p].input
               /\ rc'[p].draft # NoDraft =>
                     ~checks'[rc'[p].run].external /\ rc'[p].draft.source = "reality_check"
               /\ checks'[rc'[p].run].end =
                     IF rc'[p].pc \in {"record", "settle"} /\ rc'[p].wrote = 0
                     THEN "done" ELSE "open"
         /\ \A r \in 1 .. Len(checks') :
               /\ checks'[r].input \in Versions'
               /\ checks'[r].end = "done" /\ checks'[r].wrote # 0 =>
                     checks'[r].wrote \in Versions' /\ asg'[checks'[r].wrote].source = "reality_check"
         /\ ResolutionsStart'
  BY <1>2 DEF RunsInv, MyRun, Consolidates, IsRealityCheckProduced
<1>5. \A r \in 1 .. Len(checks) :
          /\ checks[r].input \in Versions'
          /\ checks[r].end = "done" /\ checks[r].wrote # 0 =>
                checks[r].wrote \in Versions' /\ asg'[checks[r].wrote].source = "reality_check"
  BY <1>1 DEF RunsInv, IsRealityCheckProduced
<1>6. CASE ~CheckBusy(p)
  <2>1. PICK external \in BOOLEAN, forced \in BOOLEAN, input \in Versions :
            /\ Len(checks') = Len(checks) + 1
            /\ checks'[Len(checks) + 1] = [forced |-> forced, external |-> external,
                                           input |-> input, wrote |-> 0, end |-> "open"]
            /\ rc'[p].run = Len(checks) + 1 /\ rc'[p].input = input /\ rc'[p].wrote = 0
            /\ rc'[p].pc = IF external THEN "request" ELSE "keep"
            /\ rc'[p].draft \in {NoDraft} \cup IF external THEN {} ELSE Consolidated(input)
            /\ UNCHANGED <<asg, chosen>>
    BY <1>6, CheckStarts
  <2>2. ASSUME rc'[p].draft # NoDraft
        PROVE  ~external /\ rc'[p].draft.source = "reality_check"
    <3>1. ~external /\ rc'[p].draft \in Consolidated(input)
      BY <2>1, <2>2
    <3>2. asg[input] \in Assignment
      BY <2>1 DEF FlowInv, StoreOK
    <3> QED
      BY <3>1, <3>2, ConsolidatedKeeps
  <2>3. ResolutionsStart'
    BY <2>1 DEF RunsInv, ResolutionsStart, Versions
  <2>4. \A r \in 1 .. Len(checks') : r \in 1 .. Len(checks) \/ r = Len(checks) + 1
    BY <1>3, <2>1
  <2>5. \A r \in 1 .. Len(checks) : checks'[r] = checks[r]
    BY <1>3, <1>6
  <2> QED
    BY <1>1, <1>5, <2>1, <2>2, <2>3, <2>4, <2>5
<1>7. CASE CheckBusy(p)
  <2> DEFINE run == rc[p].run
  <2>1. /\ run \in 1 .. Len(checks) /\ checks[run].input = rc[p].input
        /\ Consolidates(p) => ~checks[run].external /\ rc[p].draft.source = "reality_check"
    BY <1>7 DEF RunsInv, MyRun, FlowInv, CheckOK, CheckBusy
  <2>2. Len(checks') = Len(checks)
    BY <1>7, CheckGoesOnAs
  <2>3. ASSUME CheckBusy(p)'
        PROVE  /\ checks'[rc'[p].run].wrote = rc'[p].wrote /\ checks'[rc'[p].run].input = rc'[p].input
               /\ rc'[p].draft # NoDraft =>
                     ~checks'[rc'[p].run].external /\ rc'[p].draft.source = "reality_check"
               /\ checks'[rc'[p].run].end =
                     IF rc'[p].pc \in {"record", "settle"} /\ rc'[p].wrote = 0
                     THEN "done" ELSE "open"
    <3>1. rc'[p].run = run /\ rc'[p].input = rc[p].input /\ rc'[p].draft = rc[p].draft
      BY <1>7, <2>3, CheckGoesOn
    <3>2. checks'[run].external = checks[run].external /\ checks'[run].input = checks[run].input
      BY <2>1, RunsKeepTheirMode DEF AskedAs
    <3>3. /\ checks'[run].wrote = rc'[p].wrote
          /\ checks'[run].end = IF rc'[p].pc \in {"record", "settle"} /\ rc'[p].wrote = 0
                                THEN "done" ELSE "open"
      BY <1>7, <2>3, CheckGoesOnAs
    <3> QED
      BY <2>1, <3>1, <3>2, <3>3 DEF Consolidates
  <2>4. CASE UNCHANGED <<asg, chosen>> /\ ~Revise(p)
    <3>1. checks'[run].end = "done" => rc[p].wrote = 0
      BY <1>7, <2>4, CheckGoesOnAs
    <3>2. checks'[run].end = "done" => checks'[run].wrote = 0
      <4>1. CASE CheckBusy(p)'
        BY <2>3, <4>1, <1>7, CheckGoesOn
      <4>2. CASE ~CheckBusy(p)'
        BY <1>7, <3>1, <4>2, CheckGoesOnAs
      <4> QED
        BY <4>1, <4>2
    <3>3. ResolutionsStart'
      BY <2>4 DEF RunsInv, ResolutionsStart, Versions
    <3> QED
      BY <1>3, <1>5, <2>1, <2>2, <2>3, <3>2, <3>3
  <2>5. CASE Revise(p)
    <3>1. /\ rc[p].wrote # 0 /\ rc[p].draft.source = "reality_check"
          /\ WriteAssignment(rc[p].wrote, rc[p].draft) /\ ~CheckBusy(p)'
      <4>1. rc[p].pc = "revise" /\ rc[p].wrote # 0 /\ Consolidates(p)
        BY <2>5 DEF Revise, InCheck, FlowInv, CheckOK
      <4>2. ~CheckBusy(p)'
        BY <2>5 DEF Revise, CheckEnd, CheckIdle, CheckBusy, FlowInv, CheckOK
      <4> QED
        BY <2>1, <2>5, <4>1, <4>2 DEF Revise
    <3>2. Versions' = Versions \cup {rc[p].wrote} /\ asg'[rc[p].wrote] = rc[p].draft
      BY <3>1, NextIsNew
    <3>3. checks'[run].wrote = rc[p].wrote
      BY <1>7, <3>1, CheckGoesOnAs
    <3>4. ResolutionsStart'
      BY <1>1, <3>1, <3>2 DEF RunsInv, ResolutionsStart
    <3> QED
      BY <1>3, <1>5, <2>1, <2>2, <3>1, <3>2, <3>3, <3>4
  <2> QED
    BY <1>7, <2>4, <2>5, CheckGoesOn
<1> QED
  BY <1>6, <1>7

LEMMA RunsInit == Init => RunsInv
<1>1. SUFFICES ASSUME Init PROVE RunsInv
  OBVIOUS
<1>2. PICK saved \in SavedVersions : asg = [v \in 1 .. Len(saved) |-> saved[v]]
  BY <1>1 DEF Init
<1>3. \A v \in 1 .. Len(saved) : saved[v].source = "resolved" => saved[v].prev = 0
  BY DEF SavedVersions, Resolution
<1>4. ResolutionsStart
  BY <1>2, <1>3 DEF ResolutionsStart, Versions
<1> QED
  BY <1>1, <1>4 DEF Init, RunsInv, CheckBusy, GateIdle, CheckIdle

(* The invariant of calls one after the other, with the runs.              *)
LEMMA RunsInvariant ==
  ASSUME ~Overlap
  PROVE  Spec => [](FlowInv /\ SequentialInv /\ ChoiceInv /\ RunsInv)
<1>1. FlowInv /\ FlowInv' /\ SequentialInv /\ RunsInv /\ [Next]_flowVars => RunsInv'
  <2>1. UNCHANGED flowVars /\ RunsInv => RunsInv'
    BY DEF flowVars, rcVars, RunsInv, CheckBusy, MyRun, Consolidates, IsRealityCheckProduced,
           ResolutionsStart, Versions
  <2> QED
    BY <2>1, GateRuns, CheckRuns, ResolverRuns, SequentialNext DEF Next
<1> QED
  BY <1>1, RunsInit, ChoiceInvariant, PTL DEF Spec

(***************************************************************************)
(* A lineage is consolidated once                                          *)
(***************************************************************************)

Once(v) ==
    (IsRealityCheckProduced(v) /\ \E r \in RunsThatWrote(v) : ~checks[r].forced)
    => /\ \A w \in Ancestry(asg[v].prev) : ~IsRealityCheckProduced(w)
       /\ \A w \in Versions : w < v /\ IsRealityCheckProduced(w) => asg[w].prev # asg[v].prev

(* And the run that is about to consolidate one, unless it was asked for   *)
(* an explicit version, is for one that is not.                            *)
OnceInv ==
    /\ \A v \in Versions : Once(v)
    /\ \A p \in CheckProcs : CheckBusy(p) /\ ~MyRun(p).forced =>
          \A w \in Ancestry(Effective) : ~IsRealityCheckProduced(w)

(* An old version stays as it is, whatever is added.                       *)
LEMMA OnceStays ==
  ASSUME FlowInv, FlowInv', RunsInv, Appends, NEW v \in Versions, Once(v),
         \A r \in RunsThatWrote(v)' : r \in RunsThatWrote(v) /\ checks'[r].forced = checks[r].forced
  PROVE  Once(v)'
<1>1. /\ \A w \in Versions : w \in Versions' /\ asg'[w] = asg[w]
      /\ \A w \in Versions : IsRealityCheckProduced(w)' <=> IsRealityCheckProduced(w)
  BY DEF Appends, Versions, IsRealityCheckProduced
<1>2. asg[v].prev \in Versions \cup {0}
  BY MadeFromEarlier
<1>0. PICK u \in Versions \cup {0} : u = asg[v].prev
  BY <1>2
<1>3. Ancestry(u)' = Ancestry(u)
  BY WalksStay
<1>4. \A w \in Ancestry(u) : w \in Versions
  BY LineagesDescend DEF Descends, RunsInv
<1>5. \A w \in Versions' : w < v => w \in Versions
  <2>1. Versions = 1 .. Effective /\ Effective \in Nat
    BY InForce
  <2>2. FlowInv' => Versions' \subseteq Nat \ {0}
    <3>1. FlowInv => Versions \subseteq Nat \ {0}
      BY InForce
    <3> QED
      BY DEF FlowInv, StoreOK, Version
  <2> QED
    BY <2>1, <2>2
<1>6. asg'[v] = asg[v] /\ asg'[v].prev = u
  BY <1>0, <1>1
<1>7. ASSUME IsRealityCheckProduced(v)', NEW r \in RunsThatWrote(v)', ~checks'[r].forced
      PROVE  /\ \A w \in Ancestry(u) : ~IsRealityCheckProduced(w)
             /\ \A w \in Versions : w < v /\ IsRealityCheckProduced(w) => asg[w].prev # u
  <2>1. IsRealityCheckProduced(v) /\ r \in RunsThatWrote(v) /\ ~checks[r].forced
    BY <1>1, <1>7
  <2> QED
    BY <1>0, <2>1 DEF Once
<1>8. ASSUME IsRealityCheckProduced(v)', NEW r \in RunsThatWrote(v)', ~checks'[r].forced
      PROVE  /\ \A w \in Ancestry(u)' : ~IsRealityCheckProduced(w)'
             /\ \A w \in Versions' : w < v /\ IsRealityCheckProduced(w)' => asg'[w].prev # u
  BY <1>1, <1>3, <1>4, <1>5, <1>7, <1>8
<1>9. Ancestry(asg[v].prev)' = Ancestry(u)'
  BY <1>6
<1> QED
  BY <1>6, <1>8, <1>9 DEF Once

(* No run writes an old version, or another one than it took.              *)
LEMMA WritersStay ==
  ASSUME FlowInv, SequentialInv, RunsInv, NEW p \in CheckProcs, Check(p), NEW v \in Versions
  PROVE  \A r \in RunsThatWrote(v)' : r \in RunsThatWrote(v) /\ checks'[r].forced = checks[r].forced
<1>1. /\ Len(checks) \in Nat
      /\ \A r \in 1 .. Len(checks) : checks'[r].forced = checks[r].forced
      /\ \A r \in 1 .. Len(checks) : r # rc[p].run \/ ~CheckBusy(p) => checks'[r] = checks[r]
  <2>1. checks \in Seq(CheckRun)
    BY DEF FlowInv, RunsOK
  <2> QED
    BY <2>1, RunsKeepTheirMode DEF AskedAs
<1>2. \A r \in RunsThatWrote(v)' : /\ r \in 1 .. Len(checks') /\ checks'[r].wrote = v
                                  /\ checks'[r].end = "done"
  BY DEF RunsThatWrote
<1>3. v \in 1 .. Effective /\ Effective \in Nat
  BY InForce
<1>4. CASE ~CheckBusy(p)
  <2>1. Len(checks') = Len(checks) + 1 /\ checks'[Len(checks) + 1].wrote = 0
    <3>1. PICK external \in BOOLEAN, forced \in BOOLEAN, input \in Versions :
             /\ Len(checks') = Len(checks) + 1
             /\ checks'[Len(checks) + 1] = [forced |-> forced, external |-> external,
                                            input |-> input, wrote |-> 0, end |-> "open"]
      BY <1>4, CheckStarts
    <3> QED
      BY <3>1
  <2>2. \A r \in RunsThatWrote(v)' : r \in 1 .. Len(checks)
    BY <1>1, <1>2, <1>3, <2>1
  <2> QED
    BY <1>1, <1>2, <1>4, <2>2 DEF RunsThatWrote
<1>5. CASE CheckBusy(p)
  <2>1. Len(checks') = Len(checks)
    BY <1>5, CheckGoesOnAs
  <2>2. ASSUME rc[p].run \in RunsThatWrote(v)' PROVE FALSE
    <3>1. rc[p].wrote = 0 \/ Revise(p)
      BY <1>2, <1>5, <2>2, CheckGoesOnAs
    <3>2. ~CheckBusy(p)'
      <4>1. ASSUME CheckBusy(p)' PROVE FALSE
        <5>1. checks'[rc[p].run].wrote = rc'[p].wrote
              /\ rc'[p].pc \in {"record", "settle"} /\ rc'[p].wrote = 0
          BY <1>2, <1>5, <2>2, <4>1, CheckGoesOnAs
        <5> QED
          BY <1>2, <1>3, <2>2, <5>1
      <4> QED
        BY <4>1
    <3>3. rc[p].wrote = v
      BY <1>2, <1>5, <2>2, <3>2, CheckGoesOnAs
    <3>4. v = Effective + 1
      BY <1>3, <1>5, <3>3 DEF SequentialInv, CheckCurrent
    <3> QED
      BY <1>3, <3>4
  <2> QED
    BY <1>1, <1>2, <2>1, <2>2 DEF RunsThatWrote
<1> QED
  BY <1>4, <1>5

(* Whoever else writes consolidates nothing.                               *)
LEMMA OthersOnce ==
  ASSUME FlowInv, FlowInv', RunsInv, OnceInv, Appends, UNCHANGED rcVars,
         \A p \in CheckProcs : ~CheckBusy(p),
         \A v \in Versions' : v \in Versions \/ ~IsRealityCheckProduced(v)'
  PROVE  OnceInv'
<1>1. UNCHANGED <<rc, checks>> /\ \A v \in Versions : RunsThatWrote(v)' = RunsThatWrote(v)
  BY DEF rcVars, RunsThatWrote
<1>2. \A v \in Versions : Once(v)'
  BY <1>1, OnceStays DEF OnceInv
<1>3. \A v \in Versions' : Once(v)'
  BY <1>2 DEF Once
<1> QED
  BY <1>1, <1>3 DEF OnceInv, CheckBusy

LEMMA CheckOnce ==
  ASSUME ~Overlap, FlowInv, FlowInv', SequentialInv, ChoiceInv, RunsInv, OnceInv,
         NEW p \in CheckProcs, Check(p), Appends, UNCHANGED <<gate, resolver, edits>>
  PROVE  OnceInv'
<1>1. \A q \in CheckProcs : q # p => ~CheckBusy(q)'
  BY StepsAlone, CheckStepsOne DEF SequentialInv, CheckBusy
<1>2. \A v \in Versions : Once(v)'
  BY OnceStays, WritersStay DEF OnceInv
<1>3. SUFFICES /\ \A v \in Versions' : Once(v)'
               /\ CheckBusy(p)' /\ ~checks'[rc'[p].run].forced =>
                     \A w \in Ancestry(Effective)' : ~IsRealityCheckProduced(w)'
  BY <1>1 DEF OnceInv, MyRun
<1>4. Effective \in Versions \cup {0} /\ Effective \in Nat /\ Versions = 1 .. Effective
  BY InForce DEF Effective
<1>5. CASE UNCHANGED asg
  <2>1. Versions' = Versions /\ Effective' = Effective
        /\ \A w : IsRealityCheckProduced(w)' <=> IsRealityCheckProduced(w)
    BY <1>5 DEF Versions, Effective, IsRealityCheckProduced
  <2>2. Ancestry(Effective)' = Ancestry(Effective)
    BY <1>5 DEF Ancestry, Versions, Effective
  <2>3. ASSUME CheckBusy(p)', ~checks'[rc'[p].run].forced
        PROVE  \A w \in Ancestry(Effective) : ~IsRealityCheckProduced(w)
    <3>1. CASE ~CheckBusy(p)
      <4>1. PICK external \in BOOLEAN, forced \in BOOLEAN, input \in Versions :
               /\ ~forced => ~RunForLineage
               /\ checks'[Len(checks) + 1] = [forced |-> forced, external |-> external,
                                              input |-> input, wrote |-> 0, end |-> "open"]
               /\ rc'[p].run = Len(checks) + 1
        BY <3>1, CheckStarts
      <4>2. \A w \in Lineage(Effective) : ~IsRealityCheckProduced(w)
        BY <2>3, <4>1 DEF RunForLineage
      <4>3. Descends(Effective)
        BY <1>4, LineagesDescend DEF RunsInv
      <4> QED
        BY <4>2, <4>3 DEF Descends
    <3>2. CASE CheckBusy(p)
      <4>1. rc[p].run \in 1 .. Len(checks)
        BY <3>2 DEF FlowInv, CheckOK, CheckBusy
      <4>2. checks'[rc'[p].run].forced = checks[rc[p].run].forced
        BY <2>3, <3>2, <4>1, CheckGoesOn, RunsKeepTheirMode DEF AskedAs
      <4> QED
        BY <2>3, <3>2, <4>2 DEF OnceInv, MyRun
    <3> QED
      BY <3>1, <3>2
  <2> QED
    BY <1>2, <2>1, <2>2, <2>3
<1>6. CASE CheckBusy(p) /\ Revise(p)
  <2>1. ~CheckBusy(p)'
    BY <1>6 DEF Revise, CheckEnd, CheckIdle, CheckBusy, FlowInv, CheckOK
  <2>2. /\ rc[p].pc = "revise" /\ rc[p].wrote = Effective + 1
        /\ WriteAssignment(Effective + 1, rc[p].draft) /\ rc[p].draft.prev = rc[p].input
        /\ rc[p].run \in 1 .. Len(checks)
    <3>1. rc[p].pc = "revise" /\ rc[p].wrote # 0 /\ Consolidates(p) /\ rc[p].run \in 1 .. Len(checks)
          /\ rc[p].draft.prev = rc[p].input
      BY <1>6 DEF Revise, InCheck, FlowInv, CheckOK
    <3>2. rc[p].wrote = Effective + 1
      BY <3>1 DEF SequentialInv, CheckCurrent, CheckBusy
    <3> QED
      BY <1>6, <3>1, <3>2 DEF Revise
  <2>0. PICK new : new = Effective + 1
    OBVIOUS
  <2>3. Versions' = Versions \cup {new} /\ asg'[new] = rc[p].draft
    BY <2>0, <2>2, NextIsNew
  <2>4. ASSUME NEW r \in RunsThatWrote(new)', ~checks'[r].forced
        PROVE  /\ rc[p].input = Effective
               /\ \A w \in Ancestry(Effective) : ~IsRealityCheckProduced(w)
    <3>1. r \in 1 .. Len(checks') /\ checks'[r].wrote = new /\ checks'[r].end = "done"
      BY DEF RunsThatWrote
    <3>2. r \in 1 .. Len(checks)
      BY <1>6, <3>1, CheckGoesOnAs
    <3>3. r = rc[p].run
      <4>1. ASSUME r # rc[p].run PROVE FALSE
        <5>1. checks[r].wrote = new /\ checks[r].end = "done"
          BY <3>1, <3>2, <4>1, RunsKeepTheirMode
        <5>2. new \in Versions /\ new # 0
          BY <1>4, <2>0, <3>2, <5>1 DEF RunsInv
        <5> QED
          BY <1>4, <2>0, <5>2
      <4> QED
        BY <4>1
    <3>4. ~MyRun(p).forced
      BY <2>4, <3>2, <3>3, RunsKeepTheirMode DEF AskedAs, MyRun
    <3> QED
      BY <1>6, <3>4 DEF ChoiceInv, OnceInv
  <2>5. Once(new)'
    <3>1. SUFFICES ASSUME NEW r \in RunsThatWrote(new)', ~checks'[r].forced
                   PROVE  /\ \A w \in Ancestry(asg[new].prev)' : ~IsRealityCheckProduced(w)'
                          /\ \A w \in Versions' : w < new /\ IsRealityCheckProduced(w)'
                                                  => asg'[w].prev # asg'[new].prev
      BY DEF Once
    <3>2. /\ rc[p].input = Effective
          /\ \A w \in Ancestry(Effective) : ~IsRealityCheckProduced(w)
      BY <2>4, <3>1
    <3>3. asg'[new].prev = Effective
      BY <2>2, <2>3, <3>2
    <3>4. PICK e \in Versions \cup {0} : e = Effective
      BY <1>4
    <3>5. Ancestry(asg[new].prev)' = Ancestry(e)'
      BY <3>3, <3>4
    <3>6. Ancestry(e)' = Ancestry(e) /\ \A w \in Ancestry(e) : w \in Versions
      BY <3>4, WalksStay, LineagesDescend DEF Descends, RunsInv
    <3>7. \A w \in Versions : asg'[w] = asg[w] /\ w <= e /\ w \in Nat /\ asg[w].prev < w /\ asg[w].prev \in Nat
      BY <1>4, <3>4, MadeFromEarlier DEF Appends
    <3>8. \A w \in Ancestry(e) : ~IsRealityCheckProduced(w)'
      BY <3>2, <3>4, <3>6, <3>7 DEF IsRealityCheckProduced
    <3>9. \A w \in Versions' : w < new => w \in Versions
      BY <1>4, <2>0, <2>3
    <3>10. \A w \in Versions : asg'[w].prev # e
      BY <1>4, <3>4, <3>7
    <3> QED
      BY <3>3, <3>4, <3>5, <3>6, <3>8, <3>9, <3>10
  <2> QED
    BY <1>2, <2>1, <2>3, <2>5
<1> QED
  BY <1>5, <1>6, CheckGoesOn, CheckStarts

(* Saved versions hold no consolidation.                                   *)
LEMMA OnceInit == Init => OnceInv
<1>1. SUFFICES ASSUME Init PROVE OnceInv
  OBVIOUS
<1>2. \A v : RunsThatWrote(v) = {}
  BY <1>1 DEF Init, RunsThatWrote
<1> QED
  BY <1>1, <1>2 DEF Init, OnceInv, Once, CheckBusy, CheckIdle

LEMMA OnceInvariant ==
  ASSUME ~Overlap
  PROVE  Spec => [](FlowInv /\ SequentialInv /\ ChoiceInv /\ RunsInv /\ OnceInv)
<1>1. FlowInv /\ FlowInv' /\ SequentialInv /\ ChoiceInv /\ RunsInv /\ OnceInv /\ [Next]_flowVars
      => OnceInv'
  <2>1. UNCHANGED flowVars /\ OnceInv => OnceInv'
    <3>1. SUFFICES ASSUME UNCHANGED flowVars, OnceInv PROVE OnceInv'
      OBVIOUS
    <3>2. UNCHANGED <<asg, rc, checks>> /\ Versions' = Versions /\ Effective' = Effective
      BY <3>1 DEF flowVars, rcVars, Versions, Effective
    <3>3. \A v : RunsThatWrote(v)' = RunsThatWrote(v)
      BY <3>2 DEF RunsThatWrote
    <3>5. Ancestry(Effective)' = Ancestry(Effective)
      BY <3>2 DEF Ancestry
    <3>6. ASSUME NEW v \in Versions PROVE Once(v)'
      <4>1. Ancestry(asg[v].prev)' = Ancestry(asg[v].prev)
        BY <3>2 DEF Ancestry
      <4>2. Once(v)
        BY <3>1 DEF OnceInv
      <4> QED
        BY <3>2, <3>3, <4>1, <4>2 DEF Once, IsRealityCheckProduced
    <3> QED
      BY <3>1, <3>2, <3>5, <3>6 DEF OnceInv, CheckBusy, MyRun, IsRealityCheckProduced
  <2>2. ASSUME FlowInv, FlowInv', SequentialInv, RunsInv, OnceInv, NEW p \in GateProcs, Gate(p),
               UNCHANGED <<rcVars, resolver>>
        PROVE  OnceInv'
    <3>1. \A v \in Versions' : v \in Versions \/ ~IsRealityCheckProduced(v)'
      <4>1. "reality_check" \notin EditSources
        BY DEF EditSources
      <4> QED
        BY <2>2, <4>1, GateWrites DEF IsRealityCheckProduced
    <3>2. Appends /\ \A q \in CheckProcs : ~CheckBusy(q)
      BY <2>2, GateSequential, StepsAlone DEF SequentialInv
    <3> QED
      BY <2>2, <3>1, <3>2, OthersOnce
  <2>3. ASSUME FlowInv, FlowInv', SequentialInv, RunsInv, OnceInv, NEW p \in Resolvers, Resolve(p),
               UNCHANGED <<gate, rcVars>>
        PROVE  OnceInv'
    <3>1. \A v \in Versions' : v \in Versions \/ ~IsRealityCheckProduced(v)'
      BY <2>3, ResolverWrites DEF IsRealityCheckProduced
    <3>2. Appends /\ \A q \in CheckProcs : ~CheckBusy(q)
      BY <2>3, ResolverSequential, StepsAlone DEF SequentialInv
    <3> QED
      BY <2>3, <3>1, <3>2, OthersOnce
  <2> QED
    BY <2>1, <2>2, <2>3, CheckOnce, CheckSequential DEF Next
<1> QED
  BY <1>1, OnceInit, RunsInvariant, PTL DEF Spec

(* A lineage is consolidated once, unless an explicit version is asked     *)
(* for: over edits, re-routes, runs stopped half way and a finalize that   *)
(* comes twice, the reality check finds the consolidation, or the run that *)
(* changed nothing, wherever it is in the lineage.                         *)
THEOREM LineagesConsolidatedOnce ==
  ASSUME ~Overlap
  PROVE  Spec => []ConsolidatedOnce
<1>1. OnceInv => ConsolidatedOnce
  BY DEF OnceInv, Once, ConsolidatedOnce
<1> QED
  BY <1>1, OnceInvariant, PTL

(***************************************************************************)
(* A deliverable shows the record of the run its version descends from     *)
(***************************************************************************)

NoneBroken == \A r \in 1 .. Len(checks) : checks[r].end # "broken"

(* A run that changed nothing, done with what it checked.                  *)
FoundNothing(r, v) ==
    checks[r].end = "done" /\ ~checks[r].external /\ checks[r].wrote = 0 /\ checks[r].input = v

(* The run of the output, unless it is a preview, is among the records.    *)
KeptIn(records) ==
    rcOut # NoOut /\ ~checks[rcOut.run].external => RecordVersion(rcOut) \in DOMAIN records

(* As long as no run broke off: a consolidation has the record of a run    *)
(* that wrote it; another version has none, or that of a run that found    *)
(* nothing to change in it; such a run is recorded, or is the output; and  *)
(* an output that a marker hides, or that is about to be replaced, is      *)
(* recorded.                                                               *)
RecordInv ==
    /\ \A v \in Versions : IsRealityCheckProduced(v) =>
          v \in DOMAIN rcRec /\ rcRec[v] \in RunsThatWrote(v)
    /\ \A v \in DOMAIN rcRec : \/ v \in Versions
                               \/ \E p \in CheckProcs : /\ rc[p].pc \in {"settle", "revise"}
                                                        /\ rc[p].wrote = v
    /\ \A p \in CheckProcs : rc[p].pc \in {"settle", "revise"} /\ rc[p].wrote # 0 =>
          rc[p].wrote \in DOMAIN rcRec /\ rcRec[rc[p].wrote] = rc[p].run
    /\ \A v \in Versions \cap DOMAIN rcRec : ~IsRealityCheckProduced(v) =>
          rcRec[v] \in 1 .. Len(checks) /\ FoundNothing(rcRec[v], v)
    /\ rcOut # NoOut =>
          /\ rcOut.source = checks[rcOut.run].input /\ rcOut.wrote = checks[rcOut.run].wrote
          /\ \/ checks[rcOut.run].end = "done"
             \/ \E p \in CheckProcs : /\ rc[p].pc \in {"record", "settle", "revise"}
                                      /\ rc[p].run = rcOut.run
    /\ \A r \in 1 .. Len(checks), v \in Versions : FoundNothing(r, v) =>
          \/ v \in DOMAIN rcRec
          \/ rcOut # NoOut /\ ~checks[rcOut.run].external /\ RecordVersion(rcOut) = v
    /\ rcMark = "awaiting" /\ (\A p \in CheckProcs : rc[p].pc # "record") => KeptIn(rcRec)
    /\ \A p \in CheckProcs : rc[p].pc \in {"mark", "output"} => KeptIn(rcRec)

(* Whoever else writes, between runs, consolidates nothing and finds no    *)
(* record for the version it writes.                                       *)
LEMMA OthersRecord ==
  ASSUME FlowInv, RunsInv, RecordInv, Appends, UNCHANGED rcVars,
         \A p \in CheckProcs : ~CheckBusy(p),
         \A v \in Versions' : v \in Versions \/ ~IsRealityCheckProduced(v)'
  PROVE  RecordInv'
<1>1. UNCHANGED <<rc, rcOut, rcRec, rcMark, checks>>
  BY DEF rcVars
<1>2. /\ \A v \in Versions : v \in Versions' /\ asg'[v] = asg[v]
      /\ \A v \in Versions : IsRealityCheckProduced(v)' <=> IsRealityCheckProduced(v)
  BY DEF Appends, Versions, IsRealityCheckProduced
<1>3. /\ \A v : RunsThatWrote(v)' = RunsThatWrote(v)
      /\ \A r, v : FoundNothing(r, v)' <=> FoundNothing(r, v)
      /\ KeptIn(rcRec)' <=> KeptIn(rcRec)
  BY <1>1 DEF RunsThatWrote, FoundNothing, KeptIn, RecordVersion
<1>4. \A v \in DOMAIN rcRec : v \in Versions
  BY DEF RecordInv, CheckBusy
<1>5. \A r \in 1 .. Len(checks) : \A v : FoundNothing(r, v) => v \in Versions
  BY DEF FoundNothing, RunsInv
<1>6. \A v \in Versions' : IsRealityCheckProduced(v)' =>
          v \in DOMAIN rcRec' /\ rcRec'[v] \in RunsThatWrote(v)'
  BY <1>1, <1>2, <1>3 DEF RecordInv
<1>7. \A v \in Versions' \cap DOMAIN rcRec' : ~IsRealityCheckProduced(v)' =>
          rcRec'[v] \in 1 .. Len(checks') /\ FoundNothing(rcRec[v], v)'
  BY <1>1, <1>2, <1>3, <1>4 DEF RecordInv
<1>8. \A r \in 1 .. Len(checks'), v \in Versions' : FoundNothing(r, v)' =>
          \/ v \in DOMAIN rcRec'
          \/ rcOut' # NoOut /\ ~checks'[rcOut'.run].external /\ RecordVersion(rcOut)' = v
  BY <1>1, <1>3, <1>5 DEF RecordInv, RecordVersion
<1>9. \A p \in CheckProcs : rc'[p].pc = "idle"
  BY <1>1 DEF CheckBusy
<1>10. rcOut' # NoOut =>
          /\ rcOut'.source = checks'[rcOut'.run].input /\ rcOut'.wrote = checks'[rcOut'.run].wrote
          /\ checks'[rcOut'.run].end = "done"
  BY <1>1 DEF RecordInv, CheckBusy
<1>11. rcMark' = "awaiting" => KeptIn(rcRec)'
  BY <1>1, <1>3 DEF RecordInv, CheckBusy
<1>12. \A v \in DOMAIN rcRec' : v \in Versions'
  BY <1>1, <1>2, <1>4
<1> QED
  BY <1>6, <1>7, <1>8, <1>9, <1>10, <1>11, <1>12 DEF RecordInv

(* No run breaks and none that is done changes: what was true of it stays  *)
(* true.                                                                   *)
LEMMA DoneStays ==
  ASSUME ~Overlap, FlowInv, SequentialInv, RunsInv, NEW p \in CheckProcs, Check(p), NoneBroken'
  PROVE  /\ NoneBroken
         /\ \A r \in 1 .. Len(checks) : checks[r].end = "done" =>
               checks'[r].end = "done" /\ checks'[r].wrote = checks[r].wrote
<1>1. /\ Len(checks) \in Nat /\ Len(checks') \in Nat /\ Len(checks) <= Len(checks')
      /\ \A r \in 1 .. Len(checks) : r # rc[p].run \/ ~CheckBusy(p) => checks'[r] = checks[r]
  <2>1. checks \in Seq(CheckRun)
    BY DEF FlowInv, RunsOK
  <2>2. ~CheckBusy(p) => Len(checks') = Len(checks) + 1
    BY CheckStarts
  <2>3. CheckBusy(p) => Len(checks') = Len(checks)
    BY CheckGoesOnAs
  <2> QED
    BY <2>1, <2>2, <2>3, RunsKeepTheirMode
<1>2. CheckBusy(p) => checks[rc[p].run].end # "broken"
  BY DEF RunsInv, MyRun
<1>3. NoneBroken
  <2>1. ASSUME NEW r \in 1 .. Len(checks), checks[r].end = "broken" PROVE FALSE
    <3>1. r \in 1 .. Len(checks')
      BY <1>1
    <3>2. checks'[r] = checks[r]
      BY <1>1, <1>2, <2>1
    <3> QED
      BY <2>1, <3>1, <3>2 DEF NoneBroken
  <2> QED
    BY <2>1 DEF NoneBroken
<1>4. ASSUME CheckBusy(p), checks[rc[p].run].end = "done"
      PROVE  checks'[rc[p].run].end = "done" /\ checks'[rc[p].run].wrote = checks[rc[p].run].wrote
  <2>1. rc[p].pc \in {"record", "settle"} /\ rc[p].wrote = 0 /\ rc[p].run \in 1 .. Len(checks)
    BY <1>4 DEF RunsInv, MyRun, FlowInv, CheckOK, CheckBusy
  <2>2. RecordRun(p) \/ Settle(p) \/ CheckStops(p)
    BY <2>1 DEF Check, RunCheck, PrepareCheck, StartCheck, Request, MarkAwaiting, Keep, Output,
                Revise, InCheck
  <2>3. CASE UNCHANGED checks
    BY <1>4, <2>3
  <2>4. CASE RunEnds(p, "broken")
    <3>1. checks'[rc[p].run].end = "broken" /\ rc[p].run \in 1 .. Len(checks')
      BY <1>4, <2>1, <2>4, RunEndsAs
    <3> QED
      BY <3>1 DEF NoneBroken
  <2>5. UNCHANGED checks \/ RunEnds(p, "broken")
    <3>1. CASE RecordRun(p) \/ Settle(p)
      BY <3>1 DEF RecordRun, Settle
    <3>2. CASE CheckStops(p)
      BY <2>1, <3>2 DEF CheckStops
    <3> QED
      BY <2>2, <3>1, <3>2
  <2> QED
    BY <2>3, <2>4, <2>5
<1> QED
  BY <1>1, <1>3, <1>4

(* So no fact about runs that are done is lost.                            *)
LEMMA FactsStay ==
  ASSUME ~Overlap, FlowInv, SequentialInv, RunsInv, NEW p \in CheckProcs, Check(p), NoneBroken'
  PROVE  /\ \A r \in 1 .. Len(checks) : \A v : FoundNothing(r, v) => FoundNothing(r, v)'
         /\ \A v : RunsThatWrote(v) \subseteq RunsThatWrote(v)'
         /\ 1 .. Len(checks) \subseteq 1 .. Len(checks')
<1>1. Len(checks) \in Nat /\ Len(checks') \in Nat /\ Len(checks) <= Len(checks')
  <2>1. checks \in Seq(CheckRun)
    BY DEF FlowInv, RunsOK
  <2>2. ~CheckBusy(p) => Len(checks') = Len(checks) + 1
    BY CheckStarts
  <2>3. CheckBusy(p) => Len(checks') = Len(checks)
    BY CheckGoesOnAs
  <2> QED
    BY <2>1, <2>2, <2>3
<1>2. 1 .. Len(checks) \subseteq 1 .. Len(checks')
  BY <1>1
<1>3. \A r \in 1 .. Len(checks) : \A v : FoundNothing(r, v) => FoundNothing(r, v)'
  BY DoneStays, RunsKeepTheirMode DEF AskedAs, FoundNothing
<1>4. \A v : RunsThatWrote(v) \subseteq RunsThatWrote(v)'
  BY <1>2, DoneStays DEF RunsThatWrote
<1> QED
  BY <1>2, <1>3, <1>4

(* A step of a run that writes neither a version nor the output, and at    *)
(* which no run is done, keeps the records if those it adds are right.     *)
LEMMA RecordKept ==
  ASSUME ~Overlap, FlowInv, SequentialInv, RunsInv, RecordInv, NEW p \in CheckProcs, Check(p),
         NoneBroken', UNCHANGED <<asg, rcOut>>,
         \A v \in DOMAIN rcRec : v \in DOMAIN rcRec' /\ rcRec'[v] = rcRec[v],
         \A v \in DOMAIN rcRec' :
            \/ v \in DOMAIN rcRec /\ v \in Versions
            \/ /\ v \in Versions /\ ~IsRealityCheckProduced(v)
               /\ rcRec'[v] \in 1 .. Len(checks) /\ FoundNothing(rcRec'[v], v)
            \/ /\ v \notin Versions
               /\ rc'[p].pc \in {"settle", "revise"} /\ rc'[p].wrote = v,
         rc'[p].pc \in {"settle", "revise"} /\ rc'[p].wrote # 0 =>
            rc'[p].wrote \in DOMAIN rcRec' /\ rcRec'[rc'[p].wrote] = rc'[p].run,
         rcOut # NoOut =>
            \/ checks[rcOut.run].end = "done"
            \/ /\ CheckBusy(p) /\ rc'[p].pc \in {"record", "settle", "revise"}
               /\ rc[p].run = rcOut.run /\ rc'[p].wrote = rc[p].wrote,
         rcMark' = "awaiting" /\ rc'[p].pc # "record" => KeptIn(rcRec'),
         rc'[p].pc \in {"mark", "output"} => KeptIn(rcRec'),
         \A r \in 1 .. Len(checks') : checks'[r].end = "done" =>
            r \in 1 .. Len(checks) /\ checks[r].end = "done"
  PROVE  RecordInv'
<1>1. /\ Versions' = Versions
      /\ \A v : IsRealityCheckProduced(v)' <=> IsRealityCheckProduced(v)
      /\ RecordVersion(rcOut)' = RecordVersion(rcOut)
  BY DEF Versions, IsRealityCheckProduced, RecordVersion
<1>2. \A q \in CheckProcs : q # p => rc'[q].pc = "idle"
  BY StepsAlone, CheckStepsOne DEF SequentialInv, CheckBusy
<1>3. /\ \A r \in 1 .. Len(checks) : \A v : FoundNothing(r, v) => FoundNothing(r, v)'
      /\ \A v : RunsThatWrote(v) \subseteq RunsThatWrote(v)'
      /\ 1 .. Len(checks) \subseteq 1 .. Len(checks')
  BY FactsStay
<1>4. \A r \in 1 .. Len(checks) : /\ checks'[r].external = checks[r].external
                                 /\ checks'[r].input = checks[r].input
  BY RunsKeepTheirMode DEF AskedAs
<1>5. \A r \in 1 .. Len(checks) : checks[r].end = "done" => checks'[r].end = "done" /\ checks'[r].wrote = checks[r].wrote
  BY DoneStays
<1>6. rcOut # NoOut => rcOut.run \in 1 .. Len(checks)
  BY DEF SequentialInv, PreviewHidden
<1>7. KeptIn(rcRec)' <=> KeptIn(rcRec')
  BY <1>1, <1>4, <1>6 DEF KeptIn
<1>8. \A v \in Versions' : IsRealityCheckProduced(v)' =>
          v \in DOMAIN rcRec' /\ rcRec'[v] \in RunsThatWrote(v)'
  BY <1>1, <1>3 DEF RecordInv
<1>9. ASSUME NEW v \in Versions' \cap DOMAIN rcRec', ~IsRealityCheckProduced(v)'
      PROVE  rcRec'[v] \in 1 .. Len(checks') /\ FoundNothing(rcRec[v], v)'
  <2>1. v \in Versions /\ ~IsRealityCheckProduced(v)
    BY <1>1, <1>9
  <2>2. rcRec'[v] \in 1 .. Len(checks) /\ FoundNothing(rcRec'[v], v)
    BY <2>1, <1>9 DEF RecordInv
  <2>3. PICK r \in 1 .. Len(checks) : r = rcRec'[v]
    BY <2>2
  <2>4. FoundNothing(r, v)'
    BY <1>3, <2>2, <2>3
  <2> QED
    BY <1>3, <2>2, <2>3, <2>4 DEF FoundNothing
<1>10. ASSUME NEW r \in 1 .. Len(checks'), NEW v \in Versions', FoundNothing(r, v)'
       PROVE  \/ v \in DOMAIN rcRec'
              \/ rcOut' # NoOut /\ ~checks'[rcOut'.run].external /\ RecordVersion(rcOut)' = v
  <2>1. r \in 1 .. Len(checks) /\ checks[r].end = "done"
    BY <1>10 DEF FoundNothing
  <2>2. FoundNothing(r, v) /\ v \in Versions
    BY <1>1, <1>4, <1>5, <1>10, <2>1 DEF FoundNothing
  <2>3. \/ v \in DOMAIN rcRec
        \/ rcOut # NoOut /\ ~checks[rcOut.run].external /\ RecordVersion(rcOut) = v
    BY <2>1, <2>2 DEF RecordInv
  <2> QED
    BY <1>1, <1>4, <1>6, <2>3
<1>11. ASSUME rcOut' # NoOut
       PROVE  /\ rcOut'.source = checks'[rcOut'.run].input
              /\ rcOut'.wrote = checks'[rcOut'.run].wrote
              /\ \/ checks'[rcOut'.run].end = "done"
                 \/ rc'[p].pc \in {"record", "settle", "revise"} /\ rc'[p].run = rcOut'.run
  <2>1. rcOut.source = checks[rcOut.run].input /\ rcOut.wrote = checks[rcOut.run].wrote
    BY <1>11 DEF RecordInv
  <2>2. CASE checks[rcOut.run].end = "done"
    BY <1>4, <1>5, <1>6, <1>11, <2>1, <2>2
  <2>3. CASE /\ CheckBusy(p) /\ rc'[p].pc \in {"record", "settle", "revise"}
             /\ rc[p].run = rcOut.run /\ rc'[p].wrote = rc[p].wrote
    <3>1. CheckBusy(p)'
      BY <2>3 DEF CheckBusy
    <3>2. rc'[p].run = rc[p].run /\ checks'[rc[p].run].wrote = rc'[p].wrote
      BY <2>3, <3>1, CheckGoesOn, CheckGoesOnAs
    <3>3. checks[rc[p].run].wrote = rc[p].wrote
      BY <2>3 DEF RunsInv, MyRun
    <3> QED
      BY <1>4, <1>6, <1>11, <2>1, <2>3, <3>2, <3>3
  <2> QED
    BY <1>11, <2>2, <2>3
<1>12. \A v \in DOMAIN rcRec' :
          v \in Versions' \/ (rc'[p].pc \in {"settle", "revise"} /\ rc'[p].wrote = v)
  <2>1. SUFFICES ASSUME NEW v \in DOMAIN rcRec', v \notin Versions
                 PROVE  rc'[p].pc \in {"settle", "revise"} /\ rc'[p].wrote = v
    BY <1>1
  <2> QED
    BY <2>1
<1>13. \A q \in CheckProcs : rc'[q].pc \in {"settle", "revise"} /\ rc'[q].wrote # 0 =>
          rc'[q].wrote \in DOMAIN rcRec' /\ rcRec'[rc'[q].wrote] = rc'[q].run
  BY <1>2
<1>14. rcMark' = "awaiting" /\ (\A q \in CheckProcs : rc'[q].pc # "record") => KeptIn(rcRec)'
  BY <1>7
<1>15. \A q \in CheckProcs : rc'[q].pc \in {"mark", "output"} => KeptIn(rcRec)'
  BY <1>2, <1>7
<1> HIDE DEF NoneBroken
<1> QED
  BY <1>8, <1>9, <1>10, <1>11, <1>12, <1>13, <1>14, <1>15 DEF RecordInv

(* keep_completed_reality_check_output keeps the run of the output, and    *)
(* nothing wrong.                                                          *)
LEMMA KeepsCompleted ==
  ASSUME FlowInv, SequentialInv, RunsInv, RecordInv, KeepCompleted, NEW p \in CheckProcs,
         \A q \in CheckProcs : q # p => ~CheckBusy(q), rc[p].pc \in {"request", "keep"}
  PROVE  /\ \A v \in DOMAIN rcRec : v \in DOMAIN rcRec' /\ rcRec'[v] = rcRec[v]
         /\ \A v \in DOMAIN rcRec' :
               \/ v \in DOMAIN rcRec /\ v \in Versions
               \/ /\ v \in Versions /\ ~IsRealityCheckProduced(v)
                  /\ rcRec'[v] \in 1 .. Len(checks) /\ FoundNothing(rcRec'[v], v)
         /\ KeptIn(rcRec')
         /\ rcOut # NoOut => checks[rcOut.run].end = "done"
<1>1. \A q \in CheckProcs : rc[q].pc \notin {"record", "settle", "revise"}
  BY DEF CheckBusy
<1>2. rcOut # NoOut => checks[rcOut.run].end = "done"
  BY <1>1 DEF RecordInv
<1>3. \A v \in DOMAIN rcRec : v \in Versions
  BY <1>1 DEF RecordInv
<1>4. rcMark = "awaiting" => KeptIn(rcRec)
  BY <1>1 DEF RecordInv
<1>5. CASE rcMark = "awaiting" \/ rcOut = NoOut \/ RecordVersion(rcOut) \in DOMAIN rcRec
  <2>1. rcRec' = rcRec
    BY <1>5 DEF KeepCompleted, Completed
  <2> QED
    BY <1>2, <1>3, <1>4, <1>5, <2>1 DEF KeptIn
<1>6. CASE rcMark # "awaiting" /\ rcOut # NoOut /\ RecordVersion(rcOut) \notin DOMAIN rcRec
  <2>0. PICK key : key = RecordVersion(rcOut)
    OBVIOUS
  <2>1. rcRec' = Put(rcRec, key, rcOut.run)
    BY <1>6, <2>0 DEF KeepCompleted, Completed
  <2>2. rcOut.run \in 1 .. Len(checks) /\ ~checks[rcOut.run].external
    BY <1>6 DEF SequentialInv, PreviewHidden
  <2>3. rcOut.source = checks[rcOut.run].input /\ rcOut.wrote = checks[rcOut.run].wrote
    BY <1>6 DEF RecordInv
  <2>4. rcOut.wrote = 0
    <3>1. ASSUME rcOut.wrote # 0 PROVE FALSE
      <4>1. rcOut.wrote \in Versions /\ IsRealityCheckProduced(rcOut.wrote)
        BY <1>2, <1>6, <2>2, <2>3, <3>1 DEF RunsInv
      <4>2. rcOut.wrote \in DOMAIN rcRec
        BY <4>1 DEF RecordInv
      <4> QED
        BY <1>6, <3>1, <4>2 DEF RecordVersion
    <3> QED
      BY <3>1
  <2>5. key = checks[rcOut.run].input /\ key \in Versions
    BY <2>0, <2>2, <2>3, <2>4 DEF RecordVersion, RunsInv
  <2>6. ~IsRealityCheckProduced(key) /\ FoundNothing(rcOut.run, key)
    BY <1>2, <1>6, <2>0, <2>2, <2>3, <2>4, <2>5 DEF FoundNothing, RecordInv
  <2>7. /\ DOMAIN rcRec' = DOMAIN rcRec \cup {key}
        /\ \A w \in DOMAIN rcRec \cup {key} : rcRec'[w] = IF w = key THEN rcOut.run ELSE rcRec[w]
    BY <2>1 DEF Put
  <2>8. KeptIn(rcRec')
    BY <2>0, <2>7 DEF KeptIn
  <2>9. key \notin DOMAIN rcRec
    BY <1>6, <2>0
  <2> QED
    BY <1>2, <1>3, <2>2, <2>5, <2>6, <2>7, <2>8, <2>9
<1> QED
  BY <1>5, <1>6

(* The steps of a run up to its record, and where it stops.                *)
LEMMA QuietRecord ==
  ASSUME ~Overlap, FlowInv, SequentialInv, RunsInv, RecordInv, NEW p \in CheckProcs, Check(p),
         NoneBroken', ~Output(p), ~Revise(p)
  PROVE  RecordInv'
<1>1. /\ rc \in [CheckProcs -> CheckFrame] /\ rc[p] \in CheckFrame /\ checks \in Seq(CheckRun)
      /\ \A q \in CheckProcs : q # p => ~CheckBusy(q)
  BY StepsAlone DEF FlowInv, CheckOK, RunsOK, SequentialInv
<1>2. \A q \in CheckProcs : q # p => rc[q].pc = "idle"
  BY <1>1 DEF CheckBusy
<1>3. rc[p].pc \notin {"settle", "revise"} => \A v \in DOMAIN rcRec : v \in Versions
  BY <1>2 DEF RecordInv
<1>4. rc[p].pc \notin {"record", "settle", "revise"} /\ rcOut # NoOut
      => checks[rcOut.run].end = "done"
  BY <1>2 DEF RecordInv
<1>5. rc[p].pc # "record" /\ rcMark = "awaiting" => KeptIn(rcRec)
  BY <1>2 DEF RecordInv
<1>6. CASE ~CheckBusy(p)
  <2>1. PICK external \in BOOLEAN, forced \in BOOLEAN, input \in Versions :
            /\ Len(checks') = Len(checks) + 1
            /\ checks'[Len(checks) + 1] = [forced |-> forced, external |-> external,
                                           input |-> input, wrote |-> 0, end |-> "open"]
            /\ rc'[p].pc = IF external THEN "request" ELSE "keep"
            /\ UNCHANGED <<asg, chosen, rcOut, rcRec, rcMark>>
    BY <1>6, CheckStarts
  <2>2. \A r \in 1 .. Len(checks') : checks'[r].end = "done" =>
            r \in 1 .. Len(checks) /\ checks[r].end = "done"
    <3>1. \A r \in 1 .. Len(checks') : r \in 1 .. Len(checks) \/ r = Len(checks) + 1
      BY <1>1, <2>1
    <3>2. \A r \in 1 .. Len(checks) : checks'[r] = checks[r]
      BY <1>6, RunsKeepTheirMode
    <3> QED
      BY <2>1, <3>1, <3>2
  <2>3. rc[p].pc = "idle" /\ rc'[p].pc \notin {"settle", "revise", "record", "mark", "output"}
    BY <1>6, <2>1 DEF CheckBusy
  <2>4. UNCHANGED <<asg, rcOut>>
    BY <2>1
  <2>5. \A v \in DOMAIN rcRec' : v \in DOMAIN rcRec /\ v \in Versions /\ rcRec' = rcRec
    BY <1>3, <2>1, <2>3
  <2>6. \A v \in DOMAIN rcRec : v \in DOMAIN rcRec' /\ rcRec'[v] = rcRec[v]
    BY <2>1
  <2>7. rcMark' = "awaiting" => KeptIn(rcRec')
    BY <1>5, <2>1, <2>3
  <2> QED
    BY <1>4, <2>2, <2>3, <2>4, <2>5, <2>6, <2>7, RecordKept
<1>7. CASE Request(p)
  <2>1. /\ rc[p].pc = "request" /\ KeepCompleted /\ UNCHANGED <<asg, rcOut, rcMark, checks>>
        /\ rc'[p].pc = "mark"
    BY <1>1, <1>7 DEF Request, InCheck, CheckGoto, CheckFrame
  <2>2. /\ \A v \in DOMAIN rcRec : v \in DOMAIN rcRec' /\ rcRec'[v] = rcRec[v]
        /\ \A v \in DOMAIN rcRec' :
              \/ v \in DOMAIN rcRec /\ v \in Versions
              \/ /\ v \in Versions /\ ~IsRealityCheckProduced(v)
                 /\ rcRec'[v] \in 1 .. Len(checks) /\ FoundNothing(rcRec'[v], v)
        /\ KeptIn(rcRec')
        /\ rcOut # NoOut => checks[rcOut.run].end = "done"
    BY <1>1, <2>1, KeepsCompleted
  <2> QED
    BY <2>1, <2>2, RecordKept
<1>8. CASE MarkAwaiting(p)
  <2>1. /\ rc[p].pc = "mark" /\ UNCHANGED <<asg, rcOut, rcRec, checks>> /\ rc'[p].pc = "keep"
    BY <1>1, <1>8 DEF MarkAwaiting, InCheck, CheckGoto, CheckFrame
  <2>2. KeptIn(rcRec)
    BY <2>1 DEF RecordInv
  <2>3. \A v \in DOMAIN rcRec' : v \in DOMAIN rcRec /\ v \in Versions
    BY <1>3, <2>1
  <2>4. \A v \in DOMAIN rcRec : v \in DOMAIN rcRec' /\ rcRec'[v] = rcRec[v]
    BY <2>1
  <2> QED
    BY <1>4, <2>1, <2>2, <2>3, <2>4, RecordKept
<1>9. CASE Keep(p)
  <2>1. /\ rc[p].pc = "keep" /\ KeepCompleted /\ UNCHANGED <<asg, rcOut, rcMark>>
        /\ rc'[p].pc = "output"
    <3> DEFINE number == NumberToWrite(p)
    <3>1. /\ rc' = [rc EXCEPT ![p].pc = "output", ![p].wrote = number]
          /\ rc[p].pc = "keep" /\ KeepCompleted /\ UNCHANGED <<asg, rcOut, rcMark>>
      BY <1>9 DEF Keep, InCheck
    <3> HIDE DEF number
    <3> QED
      BY <1>1, <3>1 DEF CheckFrame
  <2>2. /\ \A v \in DOMAIN rcRec : v \in DOMAIN rcRec' /\ rcRec'[v] = rcRec[v]
        /\ \A v \in DOMAIN rcRec' :
              \/ v \in DOMAIN rcRec /\ v \in Versions
              \/ /\ v \in Versions /\ ~IsRealityCheckProduced(v)
                 /\ rcRec'[v] \in 1 .. Len(checks) /\ FoundNothing(rcRec'[v], v)
        /\ KeptIn(rcRec')
        /\ rcOut # NoOut => checks[rcOut.run].end = "done"
    BY <1>1, <2>1, KeepsCompleted
  <2>3. \A r \in 1 .. Len(checks') : checks'[r].end = "done" =>
            r \in 1 .. Len(checks) /\ checks[r].end = "done"
    <3>1. CheckBusy(p) /\ CheckBusy(p)'
      BY <2>1 DEF CheckBusy
    <3>2. Len(checks') = Len(checks) /\ checks'[rc[p].run].end = "open"
      BY <2>1, <3>1, CheckGoesOnAs
    <3> QED
      BY <3>2, RunsKeepTheirMode
  <2> QED
    BY <2>1, <2>2, <2>3, RecordKept
<1>10. CASE RecordRun(p)
  <2>1. PICK key : key = IF rc[p].wrote # 0 THEN rc[p].wrote ELSE rc[p].input
    OBVIOUS
  <2>2. /\ rc[p].pc = "record" /\ UNCHANGED <<asg, rcOut, rcMark, checks>>
        /\ rcRec' = IF key \in DOMAIN rcRec THEN rcRec ELSE Put(rcRec, key, rc[p].run)
        /\ rc'[p].pc = "settle" /\ rc'[p].wrote = rc[p].wrote /\ rc'[p].run = rc[p].run
    BY <1>1, <1>10, <2>1 DEF RecordRun, InCheck, CheckGoto, CheckFrame
  <2>3. /\ ~checks[rc[p].run].external /\ rcOut # NoOut /\ rcOut.run = rc[p].run
        /\ CheckBusy(p) /\ rc[p].run \in 1 .. Len(checks) /\ rc[p].input \in Versions
    BY <2>2 DEF SequentialInv, PreviewHidden, MyRun, CheckBusy, FlowInv, CheckOK
  <2>4. /\ checks[rc[p].run].wrote = rc[p].wrote /\ checks[rc[p].run].input = rc[p].input
        /\ rc[p].wrote = 0 => checks[rc[p].run].end = "done"
    BY <2>2, <2>3 DEF RunsInv, MyRun
  <2>5. \A v \in DOMAIN rcRec : v \in Versions
    BY <1>3, <2>2
  <2>6. rc[p].wrote # 0 => rc[p].wrote \notin Versions
    <3>1. rc[p].wrote # 0 => rc[p].wrote = Effective + 1
      BY <2>3 DEF SequentialInv, CheckCurrent
    <3> QED
      BY <3>1, InForce
  <2>7. CASE key \in DOMAIN rcRec
    <3>1. rc[p].wrote = 0 /\ rcRec' = rcRec
      BY <2>1, <2>2, <2>5, <2>6, <2>7
    <3>2. KeptIn(rcRec')
      BY <2>1, <2>3, <2>4, <2>7, <3>1 DEF KeptIn, RecordVersion, RecordInv
    <3>3. \A v \in DOMAIN rcRec' : v \in DOMAIN rcRec /\ v \in Versions
      BY <2>5, <3>1
    <3>4. \A v \in DOMAIN rcRec : v \in DOMAIN rcRec' /\ rcRec'[v] = rcRec[v]
      BY <3>1
    <3> QED
      BY <2>2, <2>3, <2>4, <3>1, <3>2, <3>3, <3>4, RecordKept
  <2>8. CASE key \notin DOMAIN rcRec
    <3>1. rcRec' = Put(rcRec, key, rc[p].run)
      BY <2>2, <2>8
    <3>2. /\ DOMAIN rcRec' = DOMAIN rcRec \cup {key}
          /\ \A w \in DOMAIN rcRec \cup {key} : rcRec'[w] = IF w = key THEN rc[p].run ELSE rcRec[w]
      BY <3>1 DEF Put
    <3>3. rcRec'[key] = rc[p].run /\ key \in DOMAIN rcRec'
      BY <3>2
    <3>4. \A v \in DOMAIN rcRec : v \in DOMAIN rcRec' /\ rcRec'[v] = rcRec[v]
      BY <2>8, <3>2
    <3>5. KeptIn(rcRec')
      BY <2>1, <2>3, <2>4, <3>3 DEF KeptIn, RecordVersion, RecordInv
    <3>6. rc[p].wrote = 0 =>
             /\ key \in Versions /\ ~IsRealityCheckProduced(key)
             /\ rcRec'[key] \in 1 .. Len(checks) /\ FoundNothing(rcRec'[key], key)
      BY <2>1, <2>3, <2>4, <2>8, <3>3 DEF FoundNothing, RecordInv
    <3>7. \A v \in DOMAIN rcRec' :
             \/ v \in DOMAIN rcRec /\ v \in Versions
             \/ /\ v \in Versions /\ ~IsRealityCheckProduced(v)
                /\ rcRec'[v] \in 1 .. Len(checks) /\ FoundNothing(rcRec'[v], v)
             \/ /\ v \notin Versions
                /\ rc'[p].pc \in {"settle", "revise"} /\ rc'[p].wrote = v
      BY <2>1, <2>2, <2>5, <2>6, <3>2, <3>6
    <3>8. rc'[p].wrote # 0 =>
             rc'[p].wrote \in DOMAIN rcRec' /\ rcRec'[rc'[p].wrote] = rc'[p].run
      BY <2>1, <2>2, <3>3
    <3> QED
      BY <2>2, <2>3, <2>4, <3>4, <3>5, <3>7, <3>8, RecordKept
  <2> QED
    BY <2>7, <2>8
<1>11. CASE Settle(p)
  <2>1. /\ rc[p].pc = "settle" /\ UNCHANGED <<asg, rcOut, rcRec, checks>> /\ rcMark' # "awaiting"
        /\ rc[p].wrote = 0 => rc'[p].pc = "idle"
        /\ rc[p].wrote # 0 => /\ rc'[p].pc = "revise" /\ rc'[p].wrote = rc[p].wrote
                              /\ rc'[p].run = rc[p].run
    BY <1>1, <1>11 DEF Settle, InCheck, CheckGoto, CheckEnd, CheckFrame, CheckIdle
  <2>2. /\ CheckBusy(p)
        /\ rc[p].wrote = 0 => checks[rc[p].run].end = "done"
        /\ rc[p].wrote # 0 => rc[p].wrote \notin Versions
    <3>1. CheckBusy(p)
      BY <2>1 DEF CheckBusy
    <3>2. rc[p].wrote # 0 => rc[p].wrote = Effective + 1
      BY <3>1 DEF SequentialInv, CheckCurrent
    <3> QED
      BY <2>1, <3>1, <3>2, InForce DEF RunsInv, MyRun
  <2>3. \A v \in DOMAIN rcRec : v # 0
    BY DEF FlowInv, RunsOK, Version
  <2>4. \A v \in DOMAIN rcRec : v \in Versions \/ rc[p].wrote = v
    BY <1>2 DEF RecordInv
  <2>5. rc[p].wrote # 0 => rc[p].wrote \in DOMAIN rcRec /\ rcRec[rc[p].wrote] = rc[p].run
    BY <2>1 DEF RecordInv
  <2>6. rcOut # NoOut => checks[rcOut.run].end = "done" \/ rc[p].run = rcOut.run
    BY <1>2 DEF RecordInv
  <2>7. \A v \in DOMAIN rcRec' :
           \/ v \in DOMAIN rcRec /\ v \in Versions
           \/ /\ v \notin Versions
              /\ rc'[p].pc \in {"settle", "revise"} /\ rc'[p].wrote = v
    BY <2>1, <2>2, <2>3, <2>4
  <2>8. \A v \in DOMAIN rcRec : v \in DOMAIN rcRec' /\ rcRec'[v] = rcRec[v]
    BY <2>1
  <2>9. rc'[p].pc \in {"settle", "revise"} /\ rc'[p].wrote # 0 =>
           rc'[p].wrote \in DOMAIN rcRec' /\ rcRec'[rc'[p].wrote] = rc'[p].run
    BY <2>1, <2>5
  <2>10. rcOut # NoOut =>
            \/ checks[rcOut.run].end = "done"
            \/ /\ CheckBusy(p) /\ rc'[p].pc \in {"record", "settle", "revise"}
               /\ rc[p].run = rcOut.run /\ rc'[p].wrote = rc[p].wrote
    BY <2>1, <2>2, <2>6
  <2>11. rc'[p].pc \notin {"mark", "output"}
    BY <2>1
  <2> QED
    BY <2>1, <2>7, <2>8, <2>9, <2>10, <2>11, RecordKept
<1>12. CASE CheckStops(p)
  <2>1. UNCHANGED <<asg, rcOut, rcRec, rcMark>> /\ rc'[p].pc = "idle" /\ CheckBusy(p)
    BY <1>1, <1>12 DEF CheckStops, InCheck, CheckEnd, CheckIdle, CheckBusy
  <2>2. ~RunEnds(p, "broken")
    <3>1. ASSUME RunEnds(p, "broken") PROVE FALSE
      <4>1. checks'[rc[p].run].end = "broken" /\ Len(checks') = Len(checks)
        BY <2>1, <3>1, RunEndsAs
      <4>2. rc[p].run \in 1 .. Len(checks)
        BY <2>1 DEF FlowInv, CheckOK, CheckBusy
      <4> QED
        BY <4>1, <4>2 DEF NoneBroken
    <3> QED
      BY <3>1
  <2>3. rc[p].pc \in {"record", "settle", "revise"} => MyRun(p).end = "done" /\ ~Hidden(p)
    BY <1>12, <2>2 DEF CheckStops
  <2>4. \/ UNCHANGED checks
        \/ RunEnds(p, "stopped")
    BY <1>12, <2>2 DEF CheckStops
  <2>5. \A r \in 1 .. Len(checks') : checks'[r].end = "done" =>
            r \in 1 .. Len(checks) /\ checks[r].end = "done"
    <3>1. CASE UNCHANGED checks
      BY <3>1
    <3>2. CASE RunEnds(p, "stopped")
      <4>1. Len(checks') = Len(checks) /\ checks'[rc[p].run].end = "stopped"
        BY <2>1, <3>2, RunEndsAs
      <4> QED
        BY <4>1, RunsKeepTheirMode
    <3> QED
      BY <2>4, <3>1, <3>2
  <2>6. rc[p].pc \in {"record", "settle", "revise"} => rc[p].wrote = 0 /\ rc[p].pc # "revise"
    BY <2>1, <2>3 DEF RunsInv
  <2>7. \A v \in DOMAIN rcRec : v \in Versions
    <3>1. \A v \in DOMAIN rcRec : v # 0
      BY DEF FlowInv, RunsOK, Version
    <3>2. \A v \in DOMAIN rcRec :
             v \in Versions \/ (rc[p].pc \in {"settle", "revise"} /\ rc[p].wrote = v)
      BY <1>2 DEF RecordInv
    <3> QED
      BY <2>6, <3>1, <3>2
  <2>8. rcOut # NoOut => checks[rcOut.run].end = "done"
    <3>1. rcOut # NoOut =>
             \/ checks[rcOut.run].end = "done"
             \/ rc[p].pc \in {"record", "settle", "revise"} /\ rc[p].run = rcOut.run
      BY <1>2 DEF RecordInv
    <3> QED
      BY <2>3, <3>1 DEF MyRun
  <2>9. rcMark' = "awaiting" => KeptIn(rcRec')
    <3>1. rc[p].pc = "record" => rcMark # "awaiting"
      BY <2>3 DEF Hidden, InCheck
    <3> QED
      BY <1>5, <2>1, <3>1
  <2>10. \A v \in DOMAIN rcRec' : v \in DOMAIN rcRec /\ v \in Versions
    BY <2>1, <2>7
  <2>11. \A v \in DOMAIN rcRec : v \in DOMAIN rcRec' /\ rcRec'[v] = rcRec[v]
    BY <2>1
  <2> QED
    BY <2>1, <2>5, <2>8, <2>9, <2>10, <2>11, RecordKept
<1> QED
  BY <1>6, <1>7, <1>8, <1>9, <1>10, <1>11, <1>12
     DEF Check, RunCheck, PrepareCheck, StartCheck, InCheck, CheckBusy
(* The output replaces one that is recorded, and is itself there to show.  *)
LEMMA OutputRecord ==
  ASSUME ~Overlap, FlowInv, SequentialInv, RunsInv, RecordInv, NEW p \in CheckProcs, Check(p),
         NoneBroken', Output(p)
  PROVE  RecordInv'
<1>1. /\ rc \in [CheckProcs -> CheckFrame] /\ rc[p] \in CheckFrame
      /\ \A q \in CheckProcs : q # p => ~CheckBusy(q)
      /\ \A q \in CheckProcs : q # p => rc'[q].pc = "idle"
  BY StepsAlone, CheckStepsOne DEF FlowInv, CheckOK, SequentialInv, CheckBusy
<1>2. PICK run : run = rc[p].run
  OBVIOUS
<1>3. /\ rc[p].pc = "output" /\ CheckBusy(p) /\ run \in 1 .. Len(checks)
      /\ checks[run].wrote = rc[p].wrote /\ checks[run].input = rc[p].input
      /\ rc[p].wrote # 0 => ~checks[run].external
  <2>1. rc[p].pc = "output" /\ CheckBusy(p)
    BY DEF Output, InCheck, CheckBusy
  <2> QED
    BY <1>2, <2>1 DEF RunsInv, MyRun, FlowInv, CheckOK, CheckBusy
<1>4. /\ UNCHANGED <<asg, rcRec, rcMark>>
      /\ rcOut'.run = run /\ rcOut'.source = rc[p].input /\ rcOut'.wrote = rc[p].wrote
  BY <1>2 DEF Output
<1>5. /\ checks[run].external => rc'[p].pc = "idle"
      /\ ~checks[run].external => rc'[p].pc = "record" /\ rc'[p].run = run /\ rc'[p].wrote = rc[p].wrote
  BY <1>1, <1>2 DEF Output, CheckFrame, CheckIdle, MyRun
<1>6. /\ checks'[run].external = checks[run].external /\ checks'[run].input = checks[run].input
      /\ Len(checks') = Len(checks)
      /\ \A r \in 1 .. Len(checks) : r # run => checks'[r] = checks[r]
  BY <1>2, <1>3, RunsKeepTheirMode, CheckGoesOnAs DEF AskedAs
<1>7. checks'[run].wrote = rc[p].wrote
  <2>1. CASE CheckBusy(p)'
    <3>1. ~checks[run].external
      BY <1>5, <2>1 DEF CheckBusy
    <3> QED
      BY <1>2, <1>3, <1>5, <2>1, <3>1, CheckGoesOnAs
  <2>2. CASE ~CheckBusy(p)'
    BY <1>2, <1>3, <2>2, CheckGoesOnAs
  <2> QED
    BY <2>1, <2>2
<1>8. rc[p].wrote = 0 => checks'[run].end = "done"
  <2>1. rc[p].wrote = 0 => RunEnds(p, "done")
    BY DEF Output
  <2> QED
    BY <1>2, <1>3, <2>1, RunEndsAs
<1>9. \A v \in DOMAIN rcRec : v \in Versions
  BY <1>1, <1>3 DEF RecordInv, CheckBusy
<1>10. KeptIn(rcRec)
  BY <1>3 DEF RecordInv
<1>11. /\ Versions' = Versions
       /\ \A v : IsRealityCheckProduced(v)' <=> IsRealityCheckProduced(v)
  BY <1>4 DEF Versions, IsRealityCheckProduced
<1>12. /\ \A r \in 1 .. Len(checks) : \A v : FoundNothing(r, v) => FoundNothing(r, v)'
       /\ \A v : RunsThatWrote(v) \subseteq RunsThatWrote(v)'
  BY FactsStay
<1>13. \A v \in Versions' : IsRealityCheckProduced(v)' =>
          v \in DOMAIN rcRec' /\ rcRec'[v] \in RunsThatWrote(v)'
  BY <1>4, <1>11, <1>12 DEF RecordInv
<1>14. ASSUME NEW v \in Versions' \cap DOMAIN rcRec', ~IsRealityCheckProduced(v)'
       PROVE  rcRec'[v] \in 1 .. Len(checks') /\ FoundNothing(rcRec[v], v)'
  <2>1. rcRec[v] \in 1 .. Len(checks) /\ FoundNothing(rcRec[v], v)
    BY <1>4, <1>11, <1>14 DEF RecordInv
  <2>2. PICK r \in 1 .. Len(checks) : r = rcRec[v]
    BY <2>1
  <2>3. FoundNothing(r, v)'
    BY <1>12, <2>1, <2>2
  <2> QED
    BY <1>4, <1>6, <2>2, <2>3 DEF FoundNothing
<1>15. ASSUME NEW r \in 1 .. Len(checks'), NEW v \in Versions', FoundNothing(r, v)'
       PROVE  \/ v \in DOMAIN rcRec'
              \/ rcOut' # NoOut /\ ~checks'[rcOut'.run].external /\ RecordVersion(rcOut)' = v
  <2>1. CASE r = run
    <3>1. rc[p].wrote = 0 /\ ~checks'[run].external /\ v = rc[p].input
      BY <1>3, <1>6, <1>7, <1>15, <2>1 DEF FoundNothing
    <3>2. run # 0 /\ rcOut' # NoOut
      BY <1>3, <1>4 DEF NoOut
    <3> QED
      BY <1>4, <3>1, <3>2 DEF RecordVersion
  <2>2. CASE r # run
    <3>1. r \in 1 .. Len(checks) /\ FoundNothing(r, v) /\ v \in Versions
      BY <1>6, <1>11, <1>15, <2>2 DEF FoundNothing
    <3>2. v \in DOMAIN rcRec
      BY <1>10, <3>1 DEF RecordInv, KeptIn
    <3> QED
      BY <1>4, <3>2
  <2> QED
    BY <2>1, <2>2
<1>16. /\ rcOut'.source = checks'[rcOut'.run].input
       /\ rcOut'.wrote = checks'[rcOut'.run].wrote
       /\ \/ checks'[rcOut'.run].end = "done"
          \/ rc'[p].pc \in {"record", "settle", "revise"} /\ rc'[p].run = rcOut'.run
  BY <1>3, <1>4, <1>5, <1>6, <1>7, <1>8
<1>17. rc'[p].pc # "record" => KeptIn(rcRec)'
  BY <1>4, <1>5, <1>6 DEF KeptIn
<1>18. \A v \in DOMAIN rcRec' : v \in Versions'
  BY <1>4, <1>9, <1>11
<1>19. \A q \in CheckProcs : rc'[q].pc \notin {"settle", "revise", "mark", "output"}
  BY <1>1, <1>5
<1> QED
  BY <1>13, <1>14, <1>15, <1>16, <1>17, <1>18, <1>19 DEF RecordInv

(* The version comes with its record.                                      *)
LEMMA ReviseRecord ==
  ASSUME ~Overlap, FlowInv, SequentialInv, RunsInv, RecordInv, NEW p \in CheckProcs, Check(p),
         NoneBroken', Revise(p), Appends
  PROVE  RecordInv'
<1>1. /\ rc \in [CheckProcs -> CheckFrame] /\ rc[p] \in CheckFrame
      /\ \A q \in CheckProcs : q # p => ~CheckBusy(q)
      /\ \A q \in CheckProcs : q # p => rc'[q].pc = "idle"
  BY StepsAlone, CheckStepsOne DEF FlowInv, CheckOK, SequentialInv, CheckBusy
<1>2. PICK run, new : run = rc[p].run /\ new = rc[p].wrote
  OBVIOUS
<1>3. /\ rc[p].pc = "revise" /\ CheckBusy(p) /\ run \in 1 .. Len(checks) /\ new # 0
      /\ checks[run].wrote = new /\ rc[p].draft.source = "reality_check"
  <2>1. rc[p].pc = "revise" /\ CheckBusy(p)
    BY DEF Revise, InCheck, CheckBusy
  <2>2. rc[p].wrote # 0 /\ Consolidates(p) /\ rc[p].run \in 1 .. Len(checks)
    BY <2>1 DEF FlowInv, CheckOK
  <2> QED
    BY <1>2, <2>1, <2>2 DEF RunsInv, MyRun
<1>4. /\ UNCHANGED <<rcOut, rcRec, rcMark>> /\ WriteAssignment(new, rc[p].draft)
      /\ RunEnds(p, "done") /\ rc'[p].pc = "idle"
  BY <1>1, <1>2 DEF Revise, CheckEnd, CheckIdle
<1>5. /\ Versions' = Versions \cup {new} /\ IsRealityCheckProduced(new)'
      /\ \A v \in Versions : IsRealityCheckProduced(v)' <=> IsRealityCheckProduced(v)
  <2>1. Versions' = Versions \cup {new} /\ asg'[new] = rc[p].draft
    BY <1>4, NextIsNew
  <2> QED
    BY <1>3, <2>1 DEF IsRealityCheckProduced, Appends
<1>6. /\ checks'[run].end = "done" /\ checks'[run].wrote = new
      /\ checks'[run].external = checks[run].external /\ checks'[run].input = checks[run].input
      /\ Len(checks') = Len(checks)
      /\ \A r \in 1 .. Len(checks) : r # run => checks'[r] = checks[r]
  BY <1>2, <1>3, <1>4, RunEndsAs, RunsKeepTheirMode DEF AskedAs
<1>7. /\ \A r \in 1 .. Len(checks) : \A v : FoundNothing(r, v) => FoundNothing(r, v)'
      /\ \A v : RunsThatWrote(v) \subseteq RunsThatWrote(v)'
  BY FactsStay
<1>8. new \in DOMAIN rcRec /\ rcRec[new] = run
  BY <1>2, <1>3 DEF RecordInv
<1>9. \A v \in DOMAIN rcRec : v \in Versions \/ v = new
  BY <1>1, <1>2 DEF RecordInv, CheckBusy
<1>10. \A v \in Versions' : IsRealityCheckProduced(v)' =>
          v \in DOMAIN rcRec' /\ rcRec'[v] \in RunsThatWrote(v)'
  <2>1. run \in RunsThatWrote(new)'
    BY <1>3, <1>6 DEF RunsThatWrote
  <2> QED
    BY <1>4, <1>5, <1>7, <1>8, <2>1 DEF RecordInv
<1>11. ASSUME NEW v \in Versions' \cap DOMAIN rcRec', ~IsRealityCheckProduced(v)'
       PROVE  rcRec'[v] \in 1 .. Len(checks') /\ FoundNothing(rcRec[v], v)'
  <2>1. v \in Versions /\ rcRec[v] \in 1 .. Len(checks) /\ FoundNothing(rcRec[v], v)
    BY <1>4, <1>5, <1>11 DEF RecordInv
  <2>2. PICK r \in 1 .. Len(checks) : r = rcRec[v]
    BY <2>1
  <2>3. FoundNothing(r, v)'
    BY <1>7, <2>1, <2>2
  <2> QED
    BY <1>4, <1>6, <2>2, <2>3 DEF FoundNothing
<1>12. ASSUME rcOut # NoOut
       PROVE  /\ rcOut.run \in 1 .. Len(checks)
              /\ checks'[rcOut.run].input = checks[rcOut.run].input
              /\ checks'[rcOut.run].external = checks[rcOut.run].external
              /\ checks'[rcOut.run].wrote = checks[rcOut.run].wrote
  BY <1>3, <1>6, <1>12 DEF SequentialInv, PreviewHidden
<1>13. ASSUME rcOut # NoOut PROVE checks'[rcOut.run].end = "done"
  <2>1. \/ checks[rcOut.run].end = "done"
        \/ rc[p].run = rcOut.run
    BY <1>1, <1>13 DEF RecordInv, CheckBusy
  <2> QED
    BY <1>2, <1>6, <1>12, <1>13, <2>1
<1>14. ASSUME NEW r \in 1 .. Len(checks'), NEW v \in Versions', FoundNothing(r, v)'
       PROVE  \/ v \in DOMAIN rcRec'
              \/ rcOut' # NoOut /\ ~checks'[rcOut'.run].external /\ RecordVersion(rcOut)' = v
  <2>1. r # run /\ r \in 1 .. Len(checks)
    BY <1>3, <1>6, <1>14 DEF FoundNothing
  <2>2. FoundNothing(r, v)
    BY <1>6, <1>14, <2>1 DEF FoundNothing
  <2>3. v \in Versions
    BY <2>1, <2>2 DEF FoundNothing, RunsInv
  <2>4. \/ v \in DOMAIN rcRec
        \/ rcOut # NoOut /\ ~checks[rcOut.run].external /\ RecordVersion(rcOut) = v
    BY <2>1, <2>2, <2>3 DEF RecordInv
  <2> QED
    BY <1>4, <1>12, <2>4 DEF RecordVersion
<1>15. rcMark' = "awaiting" => KeptIn(rcRec)'
  <2>1. rcMark = "awaiting" => KeptIn(rcRec)
    BY <1>1, <1>3 DEF RecordInv, CheckBusy
  <2> QED
    BY <1>4, <1>12, <2>1 DEF KeptIn, RecordVersion
<1>16. rcOut' # NoOut =>
          /\ rcOut'.source = checks'[rcOut'.run].input /\ rcOut'.wrote = checks'[rcOut'.run].wrote
          /\ checks'[rcOut'.run].end = "done"
  BY <1>4, <1>12, <1>13 DEF RecordInv
<1>17. \A v \in DOMAIN rcRec' : v \in Versions'
  BY <1>4, <1>5, <1>9
<1>18. \A q \in CheckProcs : rc'[q].pc = "idle"
  BY <1>1, <1>4
<1> QED
  BY <1>10, <1>11, <1>14, <1>15, <1>16, <1>17, <1>18 DEF RecordInv

(* Every step of a run keeps the records right, if no run is broken by it. *)
LEMMA CheckRecord ==
  ASSUME ~Overlap, FlowInv, FlowInv', SequentialInv, RunsInv, NoneBroken => RecordInv,
         NEW p \in CheckProcs, Check(p), UNCHANGED <<gate, resolver, edits>>, NoneBroken'
  PROVE  RecordInv'
<1>1. NoneBroken
  BY DoneStays
<1>2. RecordInv
  BY <1>1
<1>3. Appends
  BY CheckSequential
<1> QED
  BY <1>2, <1>3, QuietRecord, OutputRecord, ReviseRecord

(* Before the first run there is no record and nothing to record.          *)
LEMMA RecordInit == Init => RecordInv
<1>1. SUFFICES ASSUME Init PROVE RecordInv
  OBVIOUS
<1>2. PICK saved \in SavedVersions : asg = [v \in 1 .. Len(saved) |-> saved[v]]
  BY <1>1 DEF Init
<1>3. \A v \in 1 .. Len(saved) : saved[v].source # "reality_check"
  BY DEF SavedVersions, Resolution
<1>4. \A v \in Versions : ~IsRealityCheckProduced(v)
  BY <1>2, <1>3 DEF Versions, IsRealityCheckProduced
<1>5. DOMAIN rcRec = {} /\ Len(checks) = 0 /\ rcOut = NoOut
  BY <1>1 DEF Init
<1>6. \A p \in CheckProcs : rc[p].pc = "idle"
  BY <1>1 DEF Init, CheckIdle
<1> QED
  BY <1>1, <1>4, <1>5, <1>6 DEF Init, RecordInv

(* The invariant of calls one after the other, with the records.           *)
LEMMA RecordInvariant ==
  ASSUME ~Overlap
  PROVE  Spec => [](/\ FlowInv /\ SequentialInv /\ ChoiceInv /\ RunsInv /\ OnceInv
                    /\ NoneBroken => RecordInv)
<1>1. /\ FlowInv /\ FlowInv' /\ SequentialInv /\ RunsInv
      /\ NoneBroken => RecordInv
      /\ [Next]_flowVars
      => (NoneBroken => RecordInv)'
  <2>1. ASSUME UNCHANGED flowVars, NoneBroken => RecordInv PROVE (NoneBroken => RecordInv)'
    <3>1. /\ UNCHANGED <<asg, rc, rcOut, rcRec, rcMark, checks>>
          /\ Versions' = Versions /\ (NoneBroken' <=> NoneBroken)
      BY <2>1 DEF flowVars, rcVars, Versions, NoneBroken
    <3>2. /\ \A v : RunsThatWrote(v)' = RunsThatWrote(v)
          /\ \A r, v : FoundNothing(r, v)' <=> FoundNothing(r, v)
          /\ \A v : IsRealityCheckProduced(v)' <=> IsRealityCheckProduced(v)
          /\ KeptIn(rcRec)' <=> KeptIn(rcRec)
          /\ RecordVersion(rcOut)' = RecordVersion(rcOut)
      BY <3>1 DEF RunsThatWrote, FoundNothing, IsRealityCheckProduced, KeptIn, RecordVersion
    <3>3. RecordInv => RecordInv'
      BY <3>1, <3>2 DEF RecordInv
    <3> QED
      BY <2>1, <3>1, <3>3
  <2>2. ASSUME FlowInv, SequentialInv, RunsInv, NoneBroken => RecordInv,
               NEW p \in GateProcs, Gate(p), UNCHANGED <<rcVars, resolver>>, NoneBroken'
        PROVE  RecordInv'
    <3>1. \A v \in Versions' : v \in Versions \/ ~IsRealityCheckProduced(v)'
      <4>1. "reality_check" \notin EditSources
        BY DEF EditSources
      <4> QED
        BY <2>2, <4>1, GateWrites DEF IsRealityCheckProduced
    <3>2. Appends /\ \A q \in CheckProcs : ~CheckBusy(q)
      BY <2>2, GateSequential, StepsAlone DEF SequentialInv
    <3>3. RecordInv
      BY <2>2 DEF NoneBroken, rcVars
    <3> QED
      BY <2>2, <3>1, <3>2, <3>3, OthersRecord
  <2>3. ASSUME FlowInv, SequentialInv, RunsInv, NoneBroken => RecordInv,
               NEW p \in Resolvers, Resolve(p), UNCHANGED <<gate, rcVars>>, NoneBroken'
        PROVE  RecordInv'
    <3>1. \A v \in Versions' : v \in Versions \/ ~IsRealityCheckProduced(v)'
      BY <2>3, ResolverWrites DEF IsRealityCheckProduced
    <3>2. Appends /\ \A q \in CheckProcs : ~CheckBusy(q)
      BY <2>3, ResolverSequential, StepsAlone DEF SequentialInv
    <3>3. RecordInv
      BY <2>3 DEF NoneBroken, rcVars
    <3> QED
      BY <2>3, <3>1, <3>2, <3>3, OthersRecord
  <2> QED
    BY <2>1, <2>2, <2>3, CheckRecord DEF Next
<1> QED
  BY <1>1, RecordInit, OnceInvariant, PTL DEF Spec

(* A version made from a consolidation shows the run that wrote it.        *)
LEMMA ShowsItsWriter ==
  ASSUME FlowInv, RunsInv, RecordInv, NEW v \in Versions,
         NEW w \in Lineage(v), IsRealityCheckProduced(w)
  PROVE  RunsBehind(v) # {} /\ ShownRun(v) \in RunsBehind(v)
<1> DEFINE produced == {x \in Lineage(v) : IsRealityCheckProduced(x)}
           inAncestry == {x \in Ancestry(v) : IsRealityCheckProduced(x)}
<1>1. Descends(v) /\ MaxVersion \in Nat /\ Versions \subseteq Int
  BY LineagesDescend, InForce, AssignmentAssumption DEF RunsInv
<1>2. \A x \in produced : x = w
  <2>1. ASSUME NEW x \in produced PROVE x = w
    <3>1. x <= w /\ w <= x /\ x \in Int /\ w \in Int
      BY <1>1, <2>1 DEF Descends
    <3> QED
      BY <3>1
  <2> QED
    BY <2>1
<1>3. Max(inAncestry) = w
  <2>1. w \in inAncestry /\ inAncestry \in SUBSET Int /\ \A x \in inAncestry : x <= w
    BY <1>1 DEF Descends
  <2> HIDE DEF inAncestry
  <2> QED
    BY <2>1, MaxIs
<1>4. FirstOf(v, produced) = w
  <2>1. produced \in SUBSET Versions /\ produced \cap Lineage(v) # {}
    BY DEF Lineage
  <2>2. FirstOf(v, produced) \in produced
    <3> HIDE DEF produced
    <3> QED
      BY <1>1, <2>1, FirstOfMet
  <2> QED
    BY <1>2, <2>2
<1>5. w \in DOMAIN rcRec /\ rcRec[w] \in RunsThatWrote(w)
  BY DEF RecordInv, Lineage
<1>6. RunsBehind(v) = RunsThatWrote(w)
  <2>1. inAncestry # {}
    BY <1>1 DEF Descends
  <2> QED
    BY <1>3, <2>1 DEF RunsBehind
<1>7. ShownRun(v) = rcRec[w]
  <2>1. produced # {}
    OBVIOUS
  <2> QED
    BY <1>4, <1>5, <2>1 DEF ShownRun
<1> QED
  BY <1>5, <1>6, <1>7

(* Another version shows the run that found nothing to change in one of    *)
(* its lineage, and none if there is none.                                 *)
LEMMA ShowsItsCheck ==
  ASSUME FlowInv, SequentialInv, RunsInv, RecordInv, rcMark # "awaiting",
         \A p \in CheckProcs : rc[p].pc = "idle", NEW v \in Versions,
         \A w \in Lineage(v) : ~IsRealityCheckProduced(w)
  PROVE  IF RunsBehind(v) = {} THEN ShownRun(v) = 0 ELSE ShownRun(v) \in RunsBehind(v)
<1> DEFINE kept == Lineage(v) \cap DOMAIN rcRec
<1>1. Descends(v) /\ MaxVersion \in Nat /\ \A w \in Lineage(v) : w \in Versions
  BY LineagesDescend, AssignmentAssumption DEF RunsInv, Lineage
<1>2. \A r : r \in RunsBehind(v) <=>
         r \in 1 .. Len(checks) /\ \E w \in Lineage(v) : FoundNothing(r, w)
  <2>1. Ancestry(v) = Lineage(v)
    BY <1>1 DEF Descends
  <2>2. {w \in Ancestry(v) : IsRealityCheckProduced(w)} = {}
    BY <2>1
  <2> QED
    BY <2>1, <2>2 DEF RunsBehind, FoundNothing
<1>3. {w \in Lineage(v) : IsRealityCheckProduced(w)} = {}
  OBVIOUS
<1>4. CASE kept # {}
  <2>1. PICK key : key = FirstOf(v, kept)
    OBVIOUS
  <2>2. key \in kept
    <3>1. kept \in SUBSET Versions /\ kept \cap Lineage(v) # {}
      BY <1>1, <1>4
    <3> HIDE DEF kept
    <3> QED
      BY <1>1, <2>1, <3>1, FirstOfMet
  <2>3. ShownRun(v) = rcRec[key]
    BY <1>3, <1>4, <2>1, <2>2 DEF ShownRun
  <2>4. rcRec[key] \in 1 .. Len(checks) /\ FoundNothing(rcRec[key], key)
    BY <1>1, <2>2 DEF RecordInv
  <2> QED
    BY <1>2, <2>2, <2>3, <2>4
<1>5. CASE kept = {}
  <2>1. 0 \notin DOMAIN rcRec
    BY DEF FlowInv, RunsOK, Version
  <2>2. ShownRun(v) = IF rcOut # NoOut /\ RecordVersion(rcOut) \in Lineage(v) THEN rcOut.run ELSE 0
    BY <1>3, <1>5, <2>1 DEF ShownRun
  <2>3. CASE rcOut # NoOut /\ RecordVersion(rcOut) \in Lineage(v)
    <3>1. PICK run : run = rcOut.run
      OBVIOUS
    <3>2. /\ run \in 1 .. Len(checks) /\ ~checks[run].external /\ checks[run].end = "done"
          /\ rcOut.source = checks[run].input /\ rcOut.wrote = checks[run].wrote
      BY <2>3, <3>1 DEF SequentialInv, PreviewHidden, RecordInv
    <3>3. checks[run].wrote = 0
      <4>1. checks[run].wrote # 0 => IsRealityCheckProduced(checks[run].wrote)
        BY <3>2 DEF RunsInv
      <4> QED
        BY <2>3, <3>2, <4>1 DEF RecordVersion
    <3>4. checks[run].input \in Lineage(v) /\ FoundNothing(run, checks[run].input)
      BY <2>3, <3>2, <3>3 DEF RecordVersion, FoundNothing
    <3> QED
      BY <1>2, <2>2, <2>3, <3>1, <3>2, <3>4
  <2>4. CASE ~(rcOut # NoOut /\ RecordVersion(rcOut) \in Lineage(v))
    <3>1. \A r \in 1 .. Len(checks) : \A w \in Lineage(v) : ~FoundNothing(r, w)
      BY <1>1, <1>5, <2>4 DEF RecordInv
    <3>2. RunsBehind(v) = {}
      BY <1>2, <3>1
    <3> QED
      BY <2>2, <2>4, <3>2
  <2> QED
    BY <2>3, <2>4
<1> QED
  BY <1>4, <1>5

(* At rest, as long as no run broke off between its record and its         *)
(* version, a deliverable shows the record of a run its version descends   *)
(* from, and none when there is none: through forced runs, previews,       *)
(* finalizes that come twice, edits, re-routes and whatever else stopped.  *)
THEOREM DeliverablesShowTheirRun ==
  ASSUME ~Overlap
  PROVE  Spec => []RecordIsOwnUnlessBroken
<1>1. FlowInv /\ SequentialInv /\ RunsInv /\ (NoneBroken => RecordInv)
      => RecordIsOwnUnlessBroken
  <2>1. SUFFICES ASSUME FlowInv, SequentialInv, RunsInv, NoneBroken => RecordInv, NoneBroken,
                        rcMark # "awaiting", \A p \in CheckProcs : InCheck(p, "idle"),
                        NEW v \in Versions
                 PROVE  IF RunsBehind(v) = {} THEN ShownRun(v) = 0
                        ELSE ShownRun(v) \in RunsBehind(v)
    BY DEF RecordIsOwnUnlessBroken, RecordIsOwn, NoneBroken
  <2>2. RecordInv /\ \A p \in CheckProcs : rc[p].pc = "idle"
    BY <2>1 DEF InCheck
  <2>3. CASE \E w \in Lineage(v) : IsRealityCheckProduced(w)
    BY <2>1, <2>2, <2>3, ShowsItsWriter
  <2>4. CASE \A w \in Lineage(v) : ~IsRealityCheckProduced(w)
    BY <2>1, <2>2, <2>4, ShowsItsCheck
  <2> QED
    BY <2>3, <2>4
<1> QED
  BY <1>1, RecordInvariant, PTL
=============================================================================
