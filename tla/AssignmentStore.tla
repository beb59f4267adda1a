--------------------------- MODULE AssignmentStore ---------------------------
(***************************************************************************)
(* The assignment versions of one job: assignment/v<n>/assignment.json,    *)
(* who wrote each and which version it was made from, and the operators by *)
(* which the program reads them (storage/assignment_versioning.py).        *)
(*                                                                         *)
(* Of a version the model keeps its provenance, the engine that owns each  *)
(* query and the queries the customer pinned.  A version is one file,      *)
(* written whole.  Every query is in scope.                                *)
(***************************************************************************)
EXTENDS Integers, FiniteSets, FiniteSetsExt

CONSTANTS
    Queries,      \* the queries of the workload
    WriteGroup,   \* those that write one table: they belong on one engine
    Engines,      \* the engines a query may be placed on
    NoEngine,     \* no engine asked for
    MaxVersion    \* bound: versions in a behaviour

ASSUME AssignmentAssumption ==
    /\ WriteGroup \subseteq Queries
    /\ Engines # {} /\ NoEngine \notin Engines
    /\ MaxVersion \in Nat

VARIABLES
    asg,     \* version -> assignment, for the versions that exist
    chosen   \* history: the engine the customer last picked for each query

Version == 1 .. MaxVersion

Source == {"resolved", "reality_check", "customer_gate", "post_schema_routing",
           "source_of_truth_reroute", "auto_decided"}

(* previous_version is 0 where the file has none.                          *)
Assignment == [source : Source, prev : 0 .. MaxVersion,
               owner : [Queries -> Engines], pinned : SUBSET Queries]

(* The file of one key of a directory of versions, written whole.          *)
Put(files, v, file) ==
    [w \in DOMAIN files \cup {v} |-> IF w = v THEN file ELSE files[w]]

Versions == DOMAIN asg

-----------------------------------------------------------------------------
(* resolve_effective_assignment_version, next_assignment_version           *)
Effective == IF Versions = {} THEN 0 ELSE Max(Versions)
NextVersion == Effective + 1

WriteAssignment(v, a) == asg' = Put(asg, v, a)

(* A version its writer holds in memory.                                   *)
NoDraft == [source |-> "resolved", prev |-> 0,
            owner |-> [q \in Queries |-> NoEngine], pinned |-> {}]
Draft == Assignment \cup {NoDraft}

NothingChosen == [q \in Queries |-> NoEngine]

(* The picks a version carries.                                            *)
PicksOf(a) == [q \in Queries |-> IF q \in a.pinned THEN a.owner[q] ELSE NoEngine]

(* _EDIT_SOURCES, without the reroute of split writes.                     *)
EditSourcesOfPeople == {"customer_gate", "post_schema_routing", "auto_decided"}

(* _EDIT_SOURCES: a version of these continues the lineage of the one it   *)
(* was made from.                                                          *)
EditSources == {"customer_gate", "post_schema_routing", "source_of_truth_reroute",
                "auto_decided"}

IsRealityCheckProduced(v) == asg[v].source = "reality_check"
IsOverrideEdit(v) == asg[v].source \in EditSources

(* _lineage: the version met after n steps back from start, 0 once the     *)
(* walk is over.                                                           *)
Walk(start) ==
    LET back[n \in 0 .. MaxVersion] ==
            IF n = 0 THEN start
            ELSE LET v == back[n - 1]
                 IN  IF v \in Versions /\ IsOverrideEdit(v) THEN asg[v].prev ELSE 0
    IN  back

Lineage(start) == {Walk(start)[n] : n \in 0 .. MaxVersion} \cap Versions

(* The first version of the walk in a set that meets it.                   *)
FirstOf(start, set) ==
    LET walk == Walk(start)
    IN  walk[Min({n \in 0 .. MaxVersion : walk[n] \in set})]

(* _split_write_tables: the table's writes are on more than one engine.    *)
Split(owner) == Cardinality({owner[q] : q \in WriteGroup}) > 1

(* The queries placed with q: the other writes of a table q writes.        *)
UnitOf(q) == IF q \in WriteGroup THEN WriteGroup ELSE {q}

MoveTo(owner, moved, e) == [q \in Queries |-> IF q \in moved THEN e ELSE owner[q]]

(* engines_with_in_scope_queries: the engines a version keeps.             *)
EnginesOf(v) == {asg[v].owner[q] : q \in Queries}

-----------------------------------------------------------------------------
(* apply_assignment_overrides: a pick moves the query and what is placed   *)
(* with it.  The customer's pins it; the rule's ("decide for me") settles  *)
(* queries nobody picked, and pins nothing.                                *)
Edited(v, q, e, source) ==
    LET a == asg[v]
    IN  [source |-> source, prev |-> v, owner |-> MoveTo(a.owner, UnitOf(q), e),
         pinned |-> IF source = "customer_gate" THEN a.pinned \cup {q} ELSE a.pinned]

Edits(v) ==
    {Edited(v, q, e, "customer_gate") : q \in Queries, e \in Engines}
    \cup {Edited(v, q, e, "auto_decided") :
             q \in {r \in Queries : UnitOf(r) \cap asg[v].pinned = {}}, e \in Engines}

-----------------------------------------------------------------------------
(* What every writer owes the others.                                      *)

(* The versions are numbered without a gap, and the one a version was made *)
(* from comes before it and exists: every walk along previous_version ends *)
(* at a resolution or a consolidation (assignment_versioning._lineage      *)
(* calls anything else corrupt), whatever was stopped on the way.          *)
LineageWellFormed ==
    /\ Versions = 1 .. Effective
    /\ \A v \in Versions :
          /\ asg[v].prev < v
          /\ asg[v].source # "resolved" => asg[v].prev \in Versions

(* "An existing version is never overwritten"                              *)
(* (assignment_versioning.py:194): writers that pick a number, work, and   *)
(* write later never meet a version that has appeared meanwhile.           *)
VersionsAppendOnly ==
    [][\A v \in Versions : v \in DOMAIN asg' /\ asg'[v] = asg[v]]_asg

(* The engine the customer picked for a query stays its engine in the      *)
(* effective version, whoever wrote that, until the customer picks again,  *)
(* their picks are found to disagree, or the lineage ends.                 *)
CustomerChoiceStands ==
    Versions # {} => \A q \in Queries :
       chosen[q] # NoEngine => /\ asg[Effective].owner[q] = chosen[q]
                               /\ q \in asg[Effective].pinned
=============================================================================
