-------------------------- MODULE PostSchemaRouting --------------------------
(***************************************************************************)
(* The post-schema routing (agents/referee/post_schema_routing_handler.py, *)
(* post_schema_router.py): queries that a design flags move to another     *)
(* engine the assignment keeps, the moves become a new assignment version, *)
(* the engines they touch are designed again on it, and so on for a        *)
(* bounded number of passes.  A reroute whose designs cannot be made is    *)
(* rolled back by one more version that restates the one before.           *)
(*                                                                         *)
(* A local run redesigns by itself.  An external one is a call per pass:   *)
(* it leaves its state in external_run.json, and the caller's subagents    *)
(* design before the next call.                                            *)
(***************************************************************************)
EXTENDS SchemaDesigns

CONSTANT RouterProcs   \* processes that run a routing, or a step of one

VARIABLES
    router,   \* what each process is doing
    ext       \* post-schema-router/external_run.json

routerVars == <<router, ext>>

(* POST_SCHEMA_MAX_DEPTH                                                   *)
MaxDepth == 2

Run == [status : {"routing", "awaiting_redesign", "complete", "rolled_back"},
        version : 0 .. MaxVersion, start : 0 .. MaxVersion, previous : 0 .. MaxVersion,
        depth : 0 .. MaxDepth + 1, kept : SUBSET Engines, routed : SUBSET Queries,
        redesign : SUBSET Engines]

NoRun == [status |-> "complete", version |-> 0, start |-> 0, previous |-> 0, depth |-> 0,
          kept |-> {}, routed |-> {}, redesign |-> {}]

RouterFrame ==
    [pc : {"idle", "pass", "write", "carry", "redesign", "rollback", "restate", "save",
           "returned", "raised"},
     external : BOOLEAN, run : Run, draft : Draft, new : 0 .. MaxVersion,
     designed : SUBSET Engines]

RouterIdle == [pc |-> "idle", external |-> FALSE, run |-> NoRun, draft |-> NoDraft,
               new |-> 0, designed |-> {}]

AtRouter(self, pc) == router[self].pc = pc
RouterRests(self) == router[self].pc \in {"idle", "returned", "raised"}
MyRouting(self) == router[self].run
External(self) == router[self].external

-----------------------------------------------------------------------------
(* _post_schema_routing_start                                              *)
StartRun(v) ==
    [status |-> "routing", version |-> v, start |-> v, previous |-> 0, depth |-> 0,
     kept |-> EnginesOf(v), routed |-> {}, redesign |-> {}]

(* The pass reads the design of its version, else v1.                      *)
Readable(e, v) == {v, 1} \cap DOMAIN designs[e] # {}

(* The queries a flag counts for, if there is one: those on the engine     *)
(* whose design reports it, but what was moved before or the customer      *)
(* pinned.                                                                 *)
MayBeFlagged(run) ==
    {q \in Queries \ (run.routed \cup asg[run.version].pinned) :
        Readable(asg[run.version].owner[q], run.version)}

(* What moves with a flagged query.                                        *)
MembersOf(run, q) ==
    LET a == asg[run.version]
    IN  {m \in UnitOf(q) : a.owner[m] = a.owner[q] /\ m \notin run.routed \cup a.pinned}

HeldByNone(run, q) ==    \* a mutant of the next: the other writes of the table are not asked
    FALSE

(* A pinned write holds the table's other writes where they are.           *)
Held(run, q) == UnitOf(q) \cap asg[run.version].pinned # {}

UnitsOf(run, flagged) == {MembersOf(run, q) : q \in {r \in flagged : ~Held(run, r)}}

KeptNow(run) == run.kept \cap EnginesOf(run.version)

(* route_unsupported_queries: each unit goes to an engine still kept, or   *)
(* stays where none can take it.  The units that move and where, for each  *)
(* way to flag and to choose; nothing moves in the last pass.              *)
Placements(run) ==
    IF run.depth >= MaxDepth THEN {}
    ELSE {to \in UNION {[units -> KeptNow(run)] :
                           units \in SUBSET UnitsOf(run, MayBeFlagged(run)) \ {{}}} :
             \A u \in DOMAIN to, q \in Queries : q \in u => to[u] # asg[run.version].owner[q]}

MovedBy(to) == UNION DOMAIN to

(* _rerouted_assignment                                                    *)
RoutedDraft(run, to) ==
    LET a == asg[run.version]
    IN  [source |-> "post_schema_routing", prev |-> run.version, pinned |-> a.pinned,
         owner |-> [q \in Queries |->
            IF q \in MovedBy(to) THEN to[CHOOSE u \in DOMAIN to : q \in u] ELSE a.owner[q]]]

RememberNothing(run, to) == run.routed    \* a mutant of the next

Remember(run, to) == run.routed \cup MovedBy(to)

-----------------------------------------------------------------------------
(* PostSchemaRouting.run, on the designs of the effective version.  Bound: *)
(* where versions are left for it.                                         *)
StartRouting(self) ==
    /\ RouterRests(self)
    /\ Effective # 0 /\ AllDesigned(Effective)
    /\ Effective + 3 <= MaxVersion
    /\ router' = [router EXCEPT ![self] =
                     [RouterIdle EXCEPT !.pc = "pass", !.run = StartRun(Effective)]]
    /\ UNCHANGED <<asg, chosen, designVars, ext>>

SavedRun ==    \* a mutant of the next: the run goes on whatever was written since
    IF ext = NoRun THEN StartRun(Effective) ELSE ext

(* The run an external step goes on with: a fresh one if the assignment    *)
(* has moved on.                                                           *)
RunToContinue == IF ext.version # Effective THEN StartRun(Effective) ELSE ext

MissingBefore(run) ==    \* a mutant of the next: asked of the version before the reroute
    run.redesign \ DesignedOn(run.previous)

(* _missing_designs                                                        *)
MissingDesigns(run) == run.redesign \ DesignedOn(run.version)

(* run_external_step, of a run that neither was rolled back nor waits for  *)
(* a design.  A fresh one starts on designs, except where a stopped step   *)
(* is called again.                                                        *)
ExternalStep(self, again) ==
    LET run == RunToContinue
    IN  /\ RouterRests(self)
        /\ Effective # 0
        /\ run.status = "routing" => AllDesigned(Effective) \/ again
        /\ run.status # "rolled_back"
        /\ run.status = "awaiting_redesign" => MissingDesigns(run) = {}
        /\ Effective < MaxVersion
        /\ router' = [router EXCEPT ![self] =
                         [RouterIdle EXCEPT !.pc = "pass", !.external = TRUE, !.run = run]]
        /\ UNCHANGED <<asg, chosen, designVars, ext>>

MayRollBack == ext.status = "awaiting_redesign" /\ Effective = ext.version

(* roll_back_external: a subagent could not design what a step left to it. *)
RollBackExternal(self) ==
    /\ RouterRests(self)
    /\ MayRollBack
    /\ ext.version < MaxVersion
    /\ router' = [router EXCEPT ![self] =
                     [RouterIdle EXCEPT !.pc = "rollback", !.external = TRUE,
                         !.run = [ext EXCEPT !.version = ext.previous], !.new = ext.version,
                         !.designed = DesignedOn(ext.previous)]]
    /\ UNCHANGED <<asg, chosen, designVars, ext>>

(* _post_schema_routing_pass                                               *)
Pass(self) ==
    LET run == [MyRouting(self) EXCEPT !.kept = KeptNow(MyRouting(self))]
    IN  /\ AtRouter(self, "pass")
        /\ \/ \E to \in Placements(run) :
                 router' = [router EXCEPT ![self] =
                    [@ EXCEPT !.pc = "write", !.draft = RoutedDraft(run, to),
                              !.run = [run EXCEPT !.routed = Remember(run, to)]]]
           \/ router' = [router EXCEPT ![self].run = [run EXCEPT !.status = "complete"],
                                       ![self].pc = IF External(self) THEN "save" ELSE "returned"]
        /\ UNCHANGED <<asg, chosen, designVars, ext>>

(* _write_post_schema_reroute                                              *)
WriteReroute(self) ==
    LET new == Max({NextVersion, MyRouting(self).version + 1})
    IN  /\ AtRouter(self, "write")
        /\ new <= MaxVersion
        /\ WriteAssignment(new, router[self].draft)
        /\ router' = [router EXCEPT ![self] =
                         [@ EXCEPT !.pc = "carry", !.new = new,
                                   !.designed = DesignedOn(MyRouting(self).version)]]
        /\ UNCHANGED <<chosen, designVars, ext>>

(* The state of a run after one more reroute.                              *)
FromTheStart(run, new) ==    \* a mutant of the next: as a run that starts
    [StartRun(new) EXCEPT !.status = "awaiting_redesign", !.start = run.start,
                          !.previous = run.version, !.redesign = Affected(run.version, new)]

AfterReroute(run, new) ==
    [run EXCEPT !.status = "awaiting_redesign", !.version = new, !.previous = run.version,
                !.depth = run.depth + 1, !.redesign = Affected(run.version, new)]

(* _carry_forward_designs: a saved design that fails today's contract      *)
(* fails the reroute (what was copied before it stays on the version that  *)
(* is given up, and is left out).                                          *)
Carry(self) ==
    LET run == MyRouting(self)
        new == router[self].new
        carried == Carried(run.version, new) \cap router[self].designed
    IN  /\ AtRouter(self, "carry")
        /\ IF carried = Fit(run.version, carried)
           THEN /\ CopyDesigns(carried, run.version, new)
                /\ router' = [router EXCEPT
                      ![self].pc = IF External(self) THEN "save" ELSE "redesign",
                      ![self].run = IF External(self) THEN AfterReroute(run, new)
                                    ELSE [run EXCEPT !.redesign = Affected(run.version, new)]]
           ELSE /\ UNCHANGED designs
                /\ router' = [router EXCEPT ![self].pc = "rollback"]
        /\ UNCHANGED <<asg, chosen, revisions, ext>>

(* _reroute_and_redesign: each affected engine in turn, then the next pass.*)
Redesign(self) ==
    LET run == MyRouting(self)
        new == router[self].new
    IN  /\ AtRouter(self, "redesign")
        /\ IF run.redesign = {}
           THEN /\ router' = [router EXCEPT ![self] =
                      [@ EXCEPT !.pc = "pass", !.run = AfterReroute(run, new)]]
                /\ UNCHANGED designVars
           ELSE \E e \in run.redesign :
                   /\ DesignEngine(e, new)
                   /\ router' = [router EXCEPT ![self].run.redesign = @ \ {e}]
        /\ UNCHANGED <<asg, chosen, ext>>

RedesignTriedAgain(self) ==    \* a mutant of the next: the reroute's designs are tried again
    /\ AtRouter(self, "redesign")
    /\ MyRouting(self).redesign # {}
    /\ router' = [router EXCEPT ![self].pc = "carry"]
    /\ UNCHANGED <<asg, chosen, designVars, ext>>

(* A redesign raises.                                                      *)
RedesignFails(self) ==
    /\ AtRouter(self, "redesign")
    /\ MyRouting(self).redesign # {}
    /\ router' = [router EXCEPT ![self].pc = "rollback"]
    /\ UNCHANGED <<asg, chosen, designVars, ext>>

(* _roll_back_post_schema_reroute: the version after the reroute's, which  *)
(* restates the one before it ...                                          *)
RollBack(self) ==
    LET before == asg[MyRouting(self).version]
        new == router[self].new
    IN  /\ AtRouter(self, "rollback")
        /\ new < MaxVersion
        /\ WriteAssignment(new + 1,
              [before EXCEPT !.source = "post_schema_routing", !.prev = new])
        /\ router' = [router EXCEPT ![self].pc = "restate"]
        /\ UNCHANGED <<chosen, designVars, ext>>

RestatedCarried(self) ==    \* a mutant of the next: only what the reroute left alone
    Fit(MyRouting(self).version, Carried(MyRouting(self).version, router[self].new))

(* ... with its designs, those that pass their contract.                   *)
Restated(self) == Fit(MyRouting(self).version, router[self].designed)

Restate(self) ==
    LET run == MyRouting(self)
        rolledBack == [run EXCEPT !.status = "rolled_back", !.previous = run.version,
                                  !.version = router[self].new + 1]
    IN  /\ AtRouter(self, "restate")
        /\ CopyDesigns(Restated(self), run.version, router[self].new + 1)
        /\ router' = [router EXCEPT ![self].run = rolledBack,
                                    ![self].pc = IF External(self) THEN "save" ELSE "raised"]
        /\ UNCHANGED <<asg, chosen, revisions, ext>>

(* external_run.json                                                       *)
Save(self) ==
    /\ AtRouter(self, "save")
    /\ ext' = MyRouting(self)
    /\ router' = [router EXCEPT ![self] = RouterIdle]
    /\ UNCHANGED <<asg, chosen, designVars>>

(* A check on a version raises, or the process stops.                      *)
RouterStops(self) ==
    /\ ~RouterRests(self)
    /\ router' = [router EXCEPT ![self] = RouterIdle]
    /\ UNCHANGED <<asg, chosen, designVars, ext>>

RouterStep(self) ==
    \/ Pass(self) \/ WriteReroute(self) \/ Carry(self) \/ Redesign(self)
    \/ RedesignFails(self) \/ RollBack(self) \/ Restate(self) \/ Save(self)
=============================================================================
