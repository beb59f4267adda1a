--------------------------- MODULE SchemaDesigns ---------------------------
(***************************************************************************)
(* The schema designs of one job, schema-<engine>/v<n>/, and those who     *)
(* write them outside of a routing: the designers, the re-entry of AWS     *)
(* Transform after an edit, and the customer's revisions                   *)
(* (api/routes/schema_revisions.py).                                       *)
(*                                                                         *)
(* Of a design and its review the model keeps the queries it serves,       *)
(* whether it passes today's output contract, and whether a customer       *)
(* revised it (initiated_by in its version_meta.json, which is copied with *)
(* the design); what it flags is decided when it is read.  One process     *)
(* revises at a time: the handler of the API runs the whole revision       *)
(* without yielding.                                                       *)
(***************************************************************************)
EXTENDS AssignmentStore

CONSTANT MaxRevisions   \* bound: revisions in a behaviour

ASSUME RevisionAssumption == MaxRevisions \in Nat

VARIABLES
    designs,     \* engine -> version -> design, for the versions that exist
    revisions    \* history: how many revisions were written

designVars == <<designs, revisions>>

DesignVersion == 1 .. MaxVersion + MaxRevisions
Design == [scope : SUBSET Queries, fit : BOOLEAN, revised : BOOLEAN]

(* engine_scope                                                            *)
Scope(v, e) == {q \in Queries : asg[v].owner[q] = e}

DesignedOn(v) == {e \in Engines : v \in DOMAIN designs[e]}
AllDesigned(v) == EnginesOf(v) \subseteq DesignedOn(v)

(* _latest_schema_version                                                  *)
LatestDesign(e) == IF DOMAIN designs[e] = {} THEN 0 ELSE Max(DOMAIN designs[e])

(* assignment_engine_diff                                                  *)
Affected(v, w) == {e \in EnginesOf(w) : Scope(v, e) # Scope(w, e)}
Unaffected(v, w) == EnginesOf(w) \ Affected(v, w)

Fit(v, es) == {e \in es : designs[e][v].fit}

(* _copy_schema_artifacts, for several engines.                            *)
CopyDesigns(es, src, dst) ==
    designs' = [e \in Engines |->
                   IF e \in es THEN Put(designs[e], dst, designs[e][src]) ELSE designs[e]]

-----------------------------------------------------------------------------
(* run_schema_design_auto: an engine is designed for the queries version v *)
(* puts on it.                                                             *)
DesignEngine(e, v) ==
    /\ Scope(v, e) # {}
    /\ designs' = [designs EXCEPT ![e] =
          Put(@, v, [scope |-> Scope(v, e), fit |-> TRUE, revised |-> FALSE])]
    /\ UNCHANGED revisions

(* The designs written before the effective version, whatever the engine.  *)
DesignedBefore ==
    (UNION {DOMAIN designs[e] : e \in Engines}) \cap (1 .. Effective - 1)

CarriedAcross(v, w) ==    \* a mutant of the next: carries whatever is kept
    EnginesOf(w) \cap DesignedOn(v)

Carried(v, w) == Unaffected(v, w) \cap DesignedOn(v)

(* redispatch_after_reroute: designs the edit left alone are copied to its *)
(* version, unless they fail their contract; the other engines are left to *)
(* the designers.                                                          *)
Redispatch ==
    /\ DesignedBefore # {}
    /\ LET prev == Max(DesignedBefore)
       IN  CopyDesigns(Fit(prev, Carried(prev, Effective)), prev, Effective)
    /\ UNCHANGED revisions

-----------------------------------------------------------------------------
(* _required_query_ids: what the assignment gives the engine, less what    *)
(* this revision removes.                                                  *)
Required(e, drops) == Scope(Effective, e) \ drops

(* put_schema_revision and execute_revision: the latest design, less the   *)
(* patterns removed, or as the designer redesigns it; written as the next  *)
(* version of the engine, or refused with nothing written.  What the saved *)
(* design fails its contract on already is tolerated, and may be mended;   *)
(* so is a design emptied by the revision (_contract_tolerated).           *)
Revise(e) ==
    LET latest == LatestDesign(e)
        base == designs[e][latest]
    IN  /\ revisions < MaxRevisions
        /\ latest # 0 /\ Effective # 0
        /\ \E drops \in SUBSET base.scope :
           \E scope \in SUBSET (base.scope \cup Scope(Effective, e)) :
           \E fit \in {TRUE, base.fit, scope # {}} :
              /\ Required(e, drops) \subseteq scope
              /\ designs' = [designs EXCEPT ![e] =
                    Put(@, latest + 1, [scope |-> scope, fit |-> fit, revised |-> TRUE])]
        /\ revisions' = revisions + 1
=============================================================================
