----------------------------- MODULE SchemaFlow -----------------------------
(***************************************************************************)
(* Everybody who writes assignment versions or designs of one job once its *)
(* assignment is approved: the designers, the post-schema routing, the     *)
(* customer who edits the assignment, and the customer who revises a       *)
(* design.  They share no lock.                                            *)
(*                                                                         *)
(* With Overlap FALSE the customer edits the assignment while no call of a *)
(* routing is under way (a reroute may be waiting for its designs), and    *)
(* revises a design once the gate of the designs is open.  Revisions and   *)
(* assignment versions take their numbers from one another's directories   *)
(* all the same.                                                           *)
(***************************************************************************)
EXTENDS PostSchemaRouting

CONSTANTS
    MaxEdits,   \* bound: edits of the assignment
    Overlap

ASSUME FlowAssumption ==
    /\ MaxEdits \in Nat /\ Overlap \in BOOLEAN
    /\ IsFiniteSet(Engines) /\ MaxVersion # 0

VARIABLES
    edits,   \* edits so far
    broken   \* history: a routing stopped between a version and its designs

schemaVars == <<asg, chosen, designVars, routerVars, edits, broken>>

RoutersRest == \A p \in RouterProcs : RouterRests(p)

(* An approved assignment, with no design yet, or with designs saved by a  *)
(* release whose contract was another.                                     *)
Init ==
    /\ \E owner \in [Queries -> Engines] :
          /\ ~Split(owner)
          /\ asg = [v \in {1} |-> [source |-> "resolved", prev |-> 0, owner |-> owner,
                                   pinned |-> {}]]
    /\ chosen = NothingChosen
    /\ \E saved \in SUBSET EnginesOf(1) :
          designs = [e \in Engines |->
             IF e \in saved THEN [v \in {1} |-> [scope |-> Scope(1, e), fit |-> FALSE,
                                            revised |-> FALSE]]
             ELSE <<>>]
    /\ revisions = 0
    /\ router = [p \in RouterProcs |-> RouterIdle]
    /\ ext = NoRun
    /\ edits = 0
    /\ broken = FALSE

-----------------------------------------------------------------------------
(* PUT /{job}/assignments, in one step.                                    *)
EditAssignment ==
    /\ Overlap \/ RoutersRest
    /\ edits < MaxEdits /\ Effective < MaxVersion
    /\ \E draft \in Edits(Effective) :
          WriteAssignment(NextVersion, draft) /\ chosen' = PicksOf(draft)
    /\ edits' = edits + 1
    /\ UNCHANGED <<designVars, routerVars, broken>>

(* The designers: the schema-design phase and the subagents of a routing   *)
(* design what is missing on the effective version.                        *)
Designer ==
    /\ RoutersRest
    /\ \/ \E e \in EnginesOf(Effective) \ DesignedOn(Effective) : DesignEngine(e, Effective)
       \/ asg[Effective].source \in {"customer_gate", "auto_decided"} /\ Redispatch
    /\ UNCHANGED <<asg, chosen, routerVars, edits, broken>>

(* The review gate of the designs, which opens when all are there.         *)
Reviewer ==
    /\ Overlap \/ (RoutersRest /\ AllDesigned(Effective) /\ ext.status # "awaiting_redesign")
    /\ \E e \in IF Overlap THEN Engines ELSE EnginesOf(Effective) : Revise(e)
    /\ UNCHANGED <<asg, chosen, routerVars, edits, broken>>

Routing(p) ==
    \/ /\ StartRouting(p) \/ ExternalStep(p, broken) \/ RollBackExternal(p) \/ RouterStep(p)
       /\ UNCHANGED <<edits, broken>>
    \/ /\ RouterStops(p)
       /\ broken' = (broken \/ router[p].pc \in {"carry", "redesign", "rollback", "restate", "save"})
       /\ UNCHANGED edits

Next == EditAssignment \/ Designer \/ Reviewer \/ \E p \in RouterProcs : Routing(p)

(* A routing that is under way goes on: it is one sequential program.      *)
Spec ==
    /\ Init /\ [][Next]_schemaVars
    /\ \A p \in RouterProcs : WF_schemaVars(UNCHANGED <<edits, broken>> /\ RouterStep(p))

-----------------------------------------------------------------------------
(* Types of the versions, the designs and the memory of every routing.     *)
SchemaTypeOK ==
    /\ Versions \subseteq Version /\ \A v \in Versions : asg[v] \in Assignment
    /\ chosen \in [Queries -> Engines \cup {NoEngine}]
    /\ DOMAIN designs = Engines
    /\ \A e \in Engines : /\ DOMAIN designs[e] \subseteq DesignVersion
                          /\ \A v \in DOMAIN designs[e] : designs[e][v] \in Design
    /\ revisions \in 0 .. MaxRevisions
    /\ router \in [RouterProcs -> RouterFrame] /\ ext \in Run
    /\ edits \in 0 .. MaxEdits /\ broken \in BOOLEAN

(* "N is the assignment version it was built from"                         *)
(* (assignment_versioning.py:526): a design kept under an assignment       *)
(* version serves the queries that version puts on its engine, whether it  *)
(* was designed, carried forward, restated or dispatched again, unless it  *)
(* is a customer's revision: a revision takes a number of its engine's     *)
(* that an assignment version may get next, and its copies travel on.      *)
DesignMatchesAssignment ==
    \A v \in Versions : \A e \in DesignedOn(v) :
       ~designs[e][v].revised => designs[e][v].scope = Scope(v, e)

(* The same without the exception, which the code does not keep (README,   *)
(* section 4).                                                             *)
DesignNamesItsVersion ==
    \A v \in Versions : \A e \in DesignedOn(v) : designs[e][v].scope = Scope(v, e)

(* "Historical versions remain accessible" (ADR-019): a customer's         *)
(* revision stays what it is.  The code does not keep it (README, section  *)
(* 4).                                                                     *)
RevisionsStay ==
    [][\A e \in Engines : \A v \in DOMAIN designs[e] :
          designs[e][v].revised => designs'[e][v] = designs[e][v]]_designs

(* A routing that says it is complete, or that a step is, leaves a design  *)
(* for every engine with a query: the engines a query left are designed    *)
(* again as well as those it joined, the others' designs carried forward.  *)
CompleteIsDesigned ==
    ~broken =>
       /\ \A p \in RouterProcs : AtRouter(p, "returned") => AllDesigned(MyRouting(p).version)
       /\ ext.status = "complete" /\ ext # NoRun => AllDesigned(ext.version)

(* The versions a routing has written, and the routings there are.         *)
Rerouted(run) == {v \in Versions : run.start < v /\ v <= run.version}
Routings == {run \in {MyRouting(p) : p \in RouterProcs} \cup {ext} : run.status # "rolled_back"}

(* Over all its passes and redesigns, calls and retries, a routing moves a *)
(* query once: no query bounces between engines that flag it.              *)
MovedOnce ==
    \A run \in Routings : \A q \in Queries :
       Cardinality({v \in Rerouted(run) : asg[v].owner[q] # asg[asg[v].prev].owner[q]}) <= 1

(* "Bounded by max_depth=2 to prevent infinite cascades"                   *)
(* (post_schema_routing_handler.py:172).                                   *)
CascadeBounded == \A run \in Routings : Cardinality(Rerouted(run)) <= MaxDepth

(* A routing that was rolled back leaves the assignment as it was before   *)
(* the reroute that failed, and every design of it that still passes its   *)
(* contract.                                                               *)
AsBefore(run) ==
    /\ asg[run.version].owner = asg[run.previous].owner
    /\ asg[run.version].pinned = asg[run.previous].pinned
    /\ \A e \in DesignedOn(run.previous) :
          designs[e][run.previous].fit =>
             e \in DesignedOn(run.version) /\ designs[e][run.version] = designs[e][run.previous]

RollbackRestates ==
    /\ \A p \in RouterProcs : AtRouter(p, "raised") => AsBefore(MyRouting(p))
    /\ ext.status = "rolled_back" => AsBefore(ext)

(* A table's writes stay on one engine through every reroute (ADR-031      *)
(* Amendment 9), whichever of them is flagged and whichever is pinned.     *)
WritesTogether ==
    \A v \in Versions : Split(asg[v].owner) =>
       asg[v].prev # 0 /\ Split(asg[asg[v].prev].owner)

(* A routing returns: its cascade ends, and every reroute is completed or  *)
(* rolled back.                                                            *)
RoutingReturns == \A p \in RouterProcs : []<>RouterRests(p)
=============================================================================
