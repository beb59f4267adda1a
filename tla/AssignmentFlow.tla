--------------------------- MODULE AssignmentFlow ---------------------------
(***************************************************************************)
(* Everybody who writes assignment versions of one job before its schema   *)
(* design: the assignment phase, the reality check and the review gate.    *)
(* They share no lock; with Overlap FALSE a call starts only when no other *)
(* is under way (it may have been stopped half way).                       *)
(***************************************************************************)
EXTENDS CustomerGate, RealityCheck

CONSTANTS
    Resolvers,   \* processes that run the assignment phase
    MaxEdits,    \* bound: PUT requests and runs of the assignment phase
    Overlap

ASSUME FlowAssumption == MaxEdits \in Nat /\ Overlap \in BOOLEAN

VARIABLES
    resolver,   \* the version each assignment phase is about to write, 0 for none
    edits       \* PUT requests and assignment phases so far

flowVars == <<asg, chosen, gate, rcVars, resolver, edits>>

Alone ==
    \/ Overlap
    \/ /\ \A p \in GateProcs : InGate(p, "idle")
       /\ \A p \in CheckProcs : InCheck(p, "idle")
       /\ \A p \in Resolvers : resolver[p] = 0

Resolution(owner) ==
    [source |-> "resolved", prev |-> 0, owner |-> owner, pinned |-> {}]

(* Jobs the program finds: a new one, one just resolved, and one saved     *)
(* before a table had one writer, its writes split and picked that way.    *)
SavedVersions ==
    {<<>>}
    \cup {<<Resolution(owner)>> : owner \in [Queries -> Engines]}
    \cup {<<Resolution(owner),
            [source |-> "customer_gate", prev |-> 1, owner |-> owner, pinned |-> WriteGroup]>> :
             owner \in {o \in [Queries -> Engines] : Split(o)}}

Init ==
    /\ \E saved \in SavedVersions :
          /\ Len(saved) <= MaxVersion
          /\ asg = [v \in 1 .. Len(saved) |-> saved[v]]
          /\ chosen = IF saved = <<>> THEN NothingChosen ELSE PicksOf(saved[Len(saved)])
    /\ gate = [p \in GateProcs |-> GateIdle]
    /\ rc = [p \in CheckProcs |-> CheckIdle]
    /\ rcOut = NoOut
    /\ rcRec = <<>>
    /\ rcMark = "none"
    /\ checks = <<>>
    /\ resolver = [p \in Resolvers |-> 0]
    /\ edits = 0

-----------------------------------------------------------------------------
(* run_assignment_resolver picks the number of its version, resolves for   *)
(* a while, and writes.                                                    *)
StartResolver(p) ==
    /\ resolver[p] = 0
    /\ NextVersion <= MaxVersion
    /\ resolver' = [resolver EXCEPT ![p] = NextVersion]
    /\ UNCHANGED <<asg, chosen>>

WriteResolution(p) ==
    /\ resolver[p] # 0
    /\ \E owner \in [Queries -> Engines] :
          /\ ~Split(owner)
          /\ WriteAssignment(resolver[p], Resolution(owner))
    /\ chosen' = NothingChosen
    /\ resolver' = [resolver EXCEPT ![p] = 0]

ResolverStops(p) ==
    /\ resolver[p] # 0
    /\ resolver' = [resolver EXCEPT ![p] = 0]
    /\ UNCHANGED <<asg, chosen>>

Resolve(p) ==
    \/ Alone /\ edits < MaxEdits /\ edits' = edits + 1 /\ StartResolver(p)
    \/ (WriteResolution(p) \/ ResolverStops(p)) /\ UNCHANGED edits

Gate(p) ==
    \/ Alone /\ edits < MaxEdits /\ edits' = edits + 1 /\ PutAssignments(p)
    \/ Alone /\ (GetAssignments(p) \/ StartDesign(p)) /\ UNCHANGED edits
    \/ (\/ Reroute(p) \/ Rewrite(p) \/ Edit(p) \/ WriteEdit(p) \/ GateStops(p))
       /\ UNCHANGED edits

Check(p) ==
    \/ Alone /\ (RunCheck(p) \/ PrepareCheck(p))
    \/ Request(p) \/ MarkAwaiting(p) \/ Keep(p) \/ Output(p) \/ RecordRun(p)
    \/ Settle(p) \/ Revise(p) \/ CheckStops(p)

Next ==
    \/ \E p \in Resolvers : Resolve(p) /\ UNCHANGED <<gate, rcVars>>
    \/ \E p \in GateProcs : Gate(p) /\ UNCHANGED <<rcVars, resolver>>
    \/ \E p \in CheckProcs : Check(p) /\ UNCHANGED <<gate, resolver, edits>>

Spec == Init /\ [][Next]_flowVars

-----------------------------------------------------------------------------
(* Types of the versions and of every call's memory.                       *)
FlowTypeOK ==
    /\ Versions \subseteq Version /\ \A v \in Versions : asg[v] \in Assignment
    /\ chosen \in [Queries -> Engines \cup {NoEngine}]
    /\ gate \in [GateProcs -> GateFrame]
    /\ rc \in [CheckProcs -> CheckFrame]
    /\ rcOut \in Out /\ rcMark \in {"none", "awaiting", "finalized"}
    /\ DOMAIN rcRec \subseteq Version /\ \A v \in DOMAIN rcRec : rcRec[v] \in RunId
    /\ checks \in Seq(CheckRun) /\ Len(checks) <= MaxChecks
    /\ resolver \in [Resolvers -> 0 .. MaxVersion] /\ edits \in 0 .. MaxEdits

RunsThatWrote(v) == {r \in 1 .. Len(checks) : checks[r].wrote = v /\ checks[r].end = "done"}

(* A version and those it was made from.                                   *)
Ancestry(v) ==
    LET back[w \in 0 .. MaxVersion] ==
            IF w \notin Versions THEN {}
            ELSE {w} \cup IF asg[w].prev < w THEN back[asg[w].prev] ELSE {}
    IN  back[v]

(* A lineage is consolidated once: unless asked for an explicit version,   *)
(* the reality check never consolidates what descends from a               *)
(* consolidation, nor the same version twice, over edits, re-routes, runs  *)
(* that stop half way and a finalize that comes twice.                     *)
ConsolidatedOnce ==
    \A v \in Versions :
       (IsRealityCheckProduced(v) /\ \E r \in RunsThatWrote(v) : ~checks[r].forced)
       => /\ \A w \in Ancestry(asg[v].prev) : ~IsRealityCheckProduced(w)
          /\ \A w \in Versions : w < v /\ IsRealityCheckProduced(w) => asg[w].prev # asg[v].prev

(* The runs a version descends from: the one that wrote the consolidation, *)
(* else those that checked a version of its lineage and changed nothing.   *)
RunsBehind(v) ==
    LET produced == {w \in Ancestry(v) : IsRealityCheckProduced(w)}
    IN  IF produced # {} THEN RunsThatWrote(Max(produced))
        ELSE {r \in 1 .. Len(checks) :
                 /\ checks[r].end = "done" /\ ~checks[r].external
                 /\ checks[r].wrote = 0 /\ checks[r].input \in Ancestry(v)}

(* At rest a deliverable shows the record of a run its version descends    *)
(* from, and none when there is no such run.  A run that breaks off        *)
(* between its record and its version does not keep to it (README,         *)
(* section 4).                                                             *)
RecordIsOwn ==
    (/\ rcMark # "awaiting"
     /\ \A p \in CheckProcs : InCheck(p, "idle"))
    => \A v \in Versions :
          IF RunsBehind(v) = {} THEN ShownRun(v) = 0 ELSE ShownRun(v) \in RunsBehind(v)

(* "A deliverable shows the record of the run the assignment descends      *)
(* from, and none from another lineage" (assignment_versioning.py:446):    *)
(* through forced runs, previews and edits, as long as no run broke off    *)
(* between its record and its version.                                     *)
RecordIsOwnUnlessBroken ==
    (\A r \in 1 .. Len(checks) : checks[r].end # "broken") => RecordIsOwn

(* A preview that waits for its model is never taken for a run that found  *)
(* nothing to change, wherever the process that left it was stopped.       *)
PreviewIsNoRun == Completed # NoOut => ~checks[Completed.run].external

(* A PUT that says which version it edits is applied to that version, or   *)
(* to its re-routing.                                                      *)
EditsWhatWasSeen ==
    \A p \in GateProcs :
       InGate(p, "write") /\ gate[p].base # 0
       => \/ gate[p].input = gate[p].base
          \/ /\ asg[gate[p].input].source = "source_of_truth_reroute"
             /\ asg[gate[p].input].prev = gate[p].base
=============================================================================
