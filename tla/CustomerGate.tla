---------------------------- MODULE CustomerGate ----------------------------
(***************************************************************************)
(* The review gate of the assignment: GET and PUT /{job}/assignments       *)
(* (api/routes/assignments.py) and the start of schema design, which all   *)
(* re-route split writes before they go on (agents/referee/                *)
(* assignment_overrides.py).  A call lists the versions, reads the         *)
(* effective one, computes the next and writes it; nothing is held in      *)
(* between.                                                                *)
(***************************************************************************)
EXTENDS AssignmentStore

CONSTANT GateProcs   \* the API, and the processes that start schema designs

VARIABLE gate   \* what each process is doing

GateOp == {"get", "put", "design"}

GateFrame == [pc : {"idle", "reroute", "rewrite", "edit", "write"},
              op : GateOp, base : 0 .. MaxVersion, input : 0 .. MaxVersion, draft : Draft]

GateIdle == [pc |-> "idle", op |-> "get", base |-> 0, input |-> 0, draft |-> NoDraft]

InGate(self, pc) == gate[self].pc = pc
GateEnd(self) == gate' = [gate EXCEPT ![self] = GateIdle]

(* Where a call goes on once the writes are on one engine.                 *)
Onward(frame) ==
    IF frame.op = "put" THEN [GateIdle EXCEPT !.pc = "edit", !.op = "put", !.base = frame.base]
    ELSE GateIdle

-----------------------------------------------------------------------------
ReroutedTo(v, winners, prev) ==
    LET a == asg[v]
        overridden(e) == {q \in WriteGroup \cap a.pinned : a.owner[q] # e}
    IN  {[source |-> "source_of_truth_reroute", prev |-> prev,
          owner |-> MoveTo(a.owner, WriteGroup, e),
          pinned |-> a.pinned \ overridden(e)] : e \in winners}

PickedFor(v) == {asg[v].owner[q] : q \in WriteGroup \cap asg[v].pinned}

ReroutedUnplaced(v) ==    \* a mutant of Rerouted: without a pin no engine is looked for
    ReroutedTo(v, IF PickedFor(v) # {} THEN PickedFor(v) ELSE {NoEngine}, v)

ReroutedCopyingPrevious(v) ==    \* another: previous_version copied with the rest
    ReroutedTo(v, EnginesOf(v), asg[v].prev)

(* reroute_split_writes: the version it would write.  The unit goes to the *)
(* engine of its customer pins if they agree, else to one the version      *)
(* keeps; pins that disagree are dropped where the move overrides them.    *)
Rerouted(v) ==
    ReroutedTo(v, IF Cardinality(PickedFor(v)) = 1 THEN PickedFor(v) ELSE EnginesOf(v), v)

-----------------------------------------------------------------------------
(* What a call does first: split writes are re-routed before anything      *)
(* else.  A unit no kept engine can take is left as saved.                 *)
GateBegins(self, op, base) ==
    LET frame == [GateIdle EXCEPT !.op = op, !.base = base]
    IN  /\ InGate(self, "idle")
        /\ \/ gate' = [gate EXCEPT ![self] = Onward(frame)]
           \/ /\ Split(asg[Effective].owner)
              /\ \E draft \in Rerouted(Effective) :
                    gate' = [gate EXCEPT ![self] =
                       [frame EXCEPT !.pc = "reroute", !.input = Effective, !.draft = draft]]
        /\ UNCHANGED <<asg, chosen>>

(* GET /{job}/assignments, and a schema design that starts (after_approval)*)
GetAssignments(self) == Effective > 0 /\ GateBegins(self, "get", 0)
StartDesign(self) == Effective > 0 /\ GateBegins(self, "design", 0)

(* PUT /{job}/assignments, from a page that shows any version so far: a    *)
(* base_version other than the effective one is refused (409); a request   *)
(* need not carry one (0).                                                 *)
PutAssignmentsUnchecked(self) ==    \* a mutant of the next: base_version ignored
    \E base \in 0 .. Effective : Effective > 0 /\ GateBegins(self, "put", base)

PutAssignments(self) ==
    \E base \in 0 .. Effective :
       /\ Effective > 0
       /\ base \in {0, Effective}
       /\ GateBegins(self, "put", base)

GateGoesOn(self) == gate' = [gate EXCEPT ![self] = Onward(@)]

(* The re-routed version is written unless its number is already taken.    *)
Reroute(self) ==
    /\ InGate(self, "reroute")
    /\ IF gate[self].input + 1 \in Versions
       THEN GateGoesOn(self)
       ELSE gate' = [gate EXCEPT ![self].pc = "rewrite"]
    /\ UNCHANGED <<asg, chosen>>

Rewrite(self) ==
    LET draft == gate[self].draft
    IN  /\ InGate(self, "rewrite")
        /\ gate[self].input < MaxVersion
        /\ WriteAssignment(gate[self].input + 1, draft)
        /\ chosen' = [q \in Queries |->
                         IF asg[gate[self].input].owner[q] # draft.owner[q] THEN NoEngine
                         ELSE chosen[q]]
        /\ GateGoesOn(self)

(* apply_assignment_overrides: reads the effective version ...             *)
Edit(self) ==
    /\ InGate(self, "edit")
    /\ \E draft \in Edits(Effective) :
          gate' = [gate EXCEPT ![self] =
             [@ EXCEPT !.pc = "write", !.input = Effective, !.draft = draft]]
    /\ UNCHANGED <<asg, chosen>>

(* ... and writes the next.                                                *)
WriteEdit(self) ==
    LET draft == gate[self].draft
    IN  /\ InGate(self, "write")
        /\ gate[self].input < MaxVersion
        /\ WriteAssignment(gate[self].input + 1, draft)
        /\ chosen' = PicksOf(draft)
        /\ GateEnd(self)

(* The call is refused (a pick an engine cannot serve, a version that does *)
(* not validate), or its process stops.                                    *)
GateStops(self) ==
    /\ ~InGate(self, "idle")
    /\ GateEnd(self)
    /\ UNCHANGED <<asg, chosen>>
=============================================================================
