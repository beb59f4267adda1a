--------------------------- MODULE SchemaFlowProofs ---------------------------
(***************************************************************************)
(* What holds of SchemaFlow: types and lineages for any routings,          *)
(* designers, edits and revisions, overlapping as they may; and, for one   *)
(* routing that nobody disturbs, stopped anywhere, what becomes of the     *)
(* designs, of the customer's picks and of the queries that move.          *)
(***************************************************************************)
EXTENDS SchemaFlow, AssignmentStoreProofs, FiniteSetTheorems

(***************************************************************************)
(* Types, whatever overlaps                                                *)
(***************************************************************************)

StoreTyped ==
    /\ \A v \in Versions : asg[v] \in Assignment
    /\ chosen \in [Queries -> Engines \cup {NoEngine}]
    /\ LineageWellFormed
    /\ \A v \in Versions \ {1} : asg[v].prev \in Versions
    /\ Effective \in 1 .. MaxVersion

(* A revision is numbered after the latest design of its engine.           *)
DesignsTyped ==
    /\ DOMAIN designs = Engines
    /\ \A e \in Engines : /\ DOMAIN designs[e] \subseteq 1 .. MaxVersion + revisions
                          /\ \A v \in DOMAIN designs[e] : designs[e][v] \in Design
    /\ revisions \in 0 .. MaxRevisions

(* A run that external_run.json may hold.                                  *)
RunTyped(run) ==
    /\ run \in Run
    /\ run.version \in Versions \cup {0}
    /\ run.status = "awaiting_redesign" =>
          run.version \in Versions /\ run.previous \in Versions /\ run.previous < run.version

(* What a routing knows at each step of the versions it works on.          *)
FrameTyped(f) ==
    /\ f \in RouterFrame
    /\ f.pc \in {"pass", "write", "carry", "redesign", "rollback", "restate"} =>
          f.run.version \in Versions
    /\ f.pc = "write" => f.draft \in Assignment /\ f.draft.prev = f.run.version
    /\ f.pc \in {"write", "carry", "redesign"} => f.run.depth < MaxDepth
    /\ f.pc \in {"carry", "redesign", "rollback", "restate"} =>
          f.new \in Versions /\ f.run.version < f.new /\ f.designed \subseteq DesignedOn(f.run.version)
    /\ f.pc = "restate" => f.new + 1 \in Versions
    /\ f.pc = "save" => RunTyped(f.run)

RoutersTyped ==
    /\ router \in [RouterProcs -> RouterFrame]
    /\ \A p \in RouterProcs : FrameTyped(router[p])
    /\ RunTyped(ext)

Typed ==
    /\ StoreTyped /\ DesignsTyped /\ RoutersTyped
    /\ edits \in 0 .. MaxEdits /\ broken \in BOOLEAN


-----------------------------------------------------------------------------
(***************************************************************************)
(* Lemmas about versions and designs                                       *)
(***************************************************************************)

(* The versions there are.                                                 *)
LEMMA VersionsAre ==
  ASSUME StoreTyped
  PROVE  /\ Versions = 1 .. Effective /\ Effective \in 1 .. MaxVersion /\ MaxVersion \in Nat
         /\ NextVersion = Effective + 1 /\ Effective \in Versions
         /\ \A v \in Versions : asg[v] \in Assignment /\ EnginesOf(v) \subseteq Engines
  BY AssignmentAssumption DEF StoreTyped, LineageWellFormed, NextVersion, EnginesOf, Assignment

(* What an edit makes of a version.                                        *)
LEMMA EditIs ==
  ASSUME StoreTyped, NEW v \in Versions, NEW a \in Edits(v)
  PROVE  /\ a \in Assignment /\ a.prev = v
         /\ a.source \in {"customer_gate", "auto_decided"}
         /\ \E q \in Queries, e \in Engines : a.owner = MoveTo(asg[v].owner, UnitOf(q), e)
<1>1. PICK q \in Queries, e \in Engines, source \in {"customer_gate", "auto_decided"} :
         a = Edited(v, q, e, source)
  BY DEF Edits
<1>2. asg[v] \in Assignment /\ v \in 1 .. MaxVersion
  BY VersionsAre
<1>3. MoveTo(asg[v].owner, UnitOf(q), e) \in [Queries -> Engines]
  BY <1>2 DEF MoveTo, Assignment
<1>4. a.owner = MoveTo(asg[v].owner, UnitOf(q), e) /\ a.source = source /\ a.prev = v
  BY <1>1 DEF Edited
<1>5. a \in Assignment
  BY <1>1, <1>2, <1>3 DEF Edited, Assignment, Source
<1> QED
  BY <1>4, <1>5

(* What a placement moves, and the assignment it makes.                    *)
LEMMA PlacementIs ==
  ASSUME StoreTyped, NEW run \in Run, run.version \in Versions, NEW to \in Placements(run)
  PROVE  /\ run.depth < MaxDepth
         /\ MovedBy(to) \subseteq Queries
         /\ \A u \in DOMAIN to : to[u] \in Engines
                                /\ \E q \in MayBeFlagged(run) : ~Held(run, q) /\ u = MembersOf(run, q)
         /\ RoutedDraft(run, to) \in Assignment
<1>1. run.depth < MaxDepth
  BY DEF Placements, Run, MaxDepth
<1>2. PICK units \in SUBSET UnitsOf(run, MayBeFlagged(run)) : to \in [units -> KeptNow(run)]
  BY DEF Placements
<1>3. \A u \in DOMAIN to : to[u] \in Engines
                          /\ \E q \in MayBeFlagged(run) : ~Held(run, q) /\ u = MembersOf(run, q)
  BY <1>2 DEF UnitsOf, KeptNow, Run
<1>4. MovedBy(to) \subseteq Queries
  BY <1>3, AssignmentAssumption DEF MovedBy, MembersOf, UnitOf, MayBeFlagged
<1>5. asg[run.version] \in Assignment /\ run.version \in 0 .. MaxVersion
  BY VersionsAre
<1> DEFINE owner == [q \in Queries |->
              IF q \in MovedBy(to) THEN to[CHOOSE u \in DOMAIN to : q \in u]
              ELSE asg[run.version].owner[q]]
<1>6. owner \in [Queries -> Engines]
  <2> SUFFICES ASSUME NEW q \in Queries PROVE owner[q] \in Engines
    OBVIOUS
  <2>1. CASE q \in MovedBy(to)
    <3>1. (CHOOSE u \in DOMAIN to : q \in u) \in DOMAIN to
      BY <2>1 DEF MovedBy
    <3> QED
      BY <2>1, <3>1, <1>3
  <2>2. CASE q \notin MovedBy(to)
    BY <2>2, <1>5 DEF Assignment
  <2> QED
    BY <2>1, <2>2
<1> HIDE DEF owner
<1>7. RoutedDraft(run, to) = [source |-> "post_schema_routing", prev |-> run.version,
                             pinned |-> asg[run.version].pinned, owner |-> owner]
  BY DEF RoutedDraft, owner
<1>8. RoutedDraft(run, to) \in Assignment
  BY <1>5, <1>6, <1>7 DEF Assignment, Source
<1> QED
  BY <1>1, <1>3, <1>4, <1>8

(* A version is written where one may be.                                  *)
LEMMA WriteStore ==
  ASSUME StoreTyped, NEW v \in 1 .. Effective + 1, v <= MaxVersion, NEW a \in Assignment,
         a.prev < v, a.prev \in Versions, WriteAssignment(v, a),
         chosen' \in [Queries -> Engines \cup {NoEngine}]
  PROVE  /\ StoreTyped' /\ Versions \subseteq Versions' /\ v \in Versions'
         /\ asg'[v] = a /\ \A w \in Versions : w # v => asg'[w] = asg[w]
         /\ Effective' = IF v = NextVersion THEN v ELSE Effective
<1>1. /\ LineageWellFormed' /\ Effective' \in Nat /\ Versions \subseteq Versions'
      /\ Effective' = IF v = NextVersion THEN v ELSE Effective
  BY WriteKeepsLineage DEF StoreTyped
<1>2. /\ asg'[v] = a /\ v \in Versions' /\ Versions' = Versions \cup {v}
      /\ \A w \in Versions : w # v => asg'[w] = asg[w]
  BY DEF WriteAssignment, Put, Versions
<1>3. Effective' \in 1 .. MaxVersion
  BY <1>1, VersionsAre
<1>4. \A w \in Versions' : asg'[w] \in Assignment /\ (w # 1 => asg'[w].prev \in Versions')
  BY <1>2 DEF StoreTyped
<1> QED
  BY <1>1, <1>2, <1>3, <1>4 DEF StoreTyped

(* No design goes away.                                                    *)
Grow == \A e \in Engines : DOMAIN designs[e] \subseteq DOMAIN designs'[e]

(* What a designer writes of an engine for a version.                      *)
Designed(v, e) == [scope |-> Scope(v, e), fit |-> TRUE, revised |-> FALSE]

LEMMA DesignIs ==
  ASSUME Typed, NEW e \in Engines, NEW v \in Versions, DesignEngine(e, v)
  PROVE  /\ DesignsTyped' /\ Grow
         /\ revisions' = revisions /\ Scope(v, e) # {} /\ v \in DOMAIN designs'[e]
         /\ designs'[e][v] = Designed(v, e)
         /\ \A d \in Engines : DOMAIN designs'[d] \subseteq DOMAIN designs[d] \cup {v}
         /\ \A d \in Engines \ {e} : designs'[d] = designs[d]
         /\ \A w \in DOMAIN designs[e] \ {v} : designs'[e][w] = designs[e][w]
<1>1. Scope(v, e) \in SUBSET Queries /\ Designed(v, e) \in Design
  BY DEF Scope, Design, Designed
<1>2. v \in 1 .. MaxVersion + revisions /\ revisions \in Nat
  BY VersionsAre, RevisionAssumption DEF Typed, DesignsTyped
<1> DEFINE d == Designed(v, e)
<1> HIDE DEF d
<1>3. /\ designs' = [designs EXCEPT ![e] = Put(designs[e], v, d)] /\ d \in Design
      /\ revisions' = revisions /\ Scope(v, e) # {}
  BY <1>1 DEF DesignEngine, Designed, d
<1>4. /\ DOMAIN designs' = Engines /\ designs'[e] = Put(designs[e], v, d)
      /\ \A c \in Engines \ {e} : designs'[c] = designs[c]
  BY <1>3 DEF Typed, DesignsTyped
<1>5. /\ DOMAIN designs'[e] = DOMAIN designs[e] \cup {v}
      /\ \A w \in DOMAIN designs'[e] : designs'[e][w] = IF w = v THEN d ELSE designs[e][w]
  BY <1>4 DEF Put
<1>6. DesignsTyped'
  BY <1>2, <1>3, <1>4, <1>5 DEF Typed, DesignsTyped
<1> QED
  BY <1>3, <1>4, <1>5, <1>6 DEF Grow, d

(* Designs that are there are copied.                                      *)
LEMMA CopyIs ==
  ASSUME Typed, NEW es \in SUBSET Engines, NEW src, NEW dst \in Versions',
         Versions' \subseteq Version, es \subseteq DesignedOn(src), CopyDesigns(es, src, dst),
         revisions' = revisions
  PROVE  /\ DesignsTyped' /\ Grow
         /\ \A e \in Engines : DOMAIN designs'[e] = IF e \in es THEN DOMAIN designs[e] \cup {dst}
                                                  ELSE DOMAIN designs[e]
         /\ \A e \in es : designs'[e][dst] = designs[e][src]
         /\ \A e \in Engines : \A v \in DOMAIN designs[e] :
               e \notin es \/ v # dst => designs'[e][v] = designs[e][v]
<1>1. /\ DOMAIN designs' = Engines
      /\ \A e \in Engines : designs'[e] = IF e \in es THEN Put(designs[e], dst, designs[e][src])
                                          ELSE designs[e]
  BY DEF CopyDesigns
<1>2. \A e \in es : /\ src \in DOMAIN designs[e]
                    /\ DOMAIN designs'[e] = DOMAIN designs[e] \cup {dst}
                    /\ \A v \in DOMAIN designs'[e] :
                          designs'[e][v] = IF v = dst THEN designs[e][src] ELSE designs[e][v]
  BY <1>1 DEF Put, DesignedOn
<1>3. dst \in 1 .. MaxVersion + revisions /\ revisions \in Nat
  BY AssignmentAssumption, RevisionAssumption DEF Typed, DesignsTyped, Version
<1>4. ASSUME NEW e \in Engines
      PROVE  /\ DOMAIN designs'[e] \subseteq 1 .. MaxVersion + revisions'
             /\ \A v \in DOMAIN designs'[e] : designs'[e][v] \in Design
  <2>1. CASE e \in es
    BY <1>2, <1>3, <2>1 DEF Typed, DesignsTyped
  <2>2. CASE e \notin es
    BY <1>1, <2>2 DEF Typed, DesignsTyped
  <2> QED
    BY <2>1, <2>2
<1>5. DesignsTyped'
  BY <1>1, <1>4 DEF Typed, DesignsTyped
<1> QED
  BY <1>1, <1>2, <1>5 DEF Grow

(* The latest design of an engine.                                         *)
LEMMA LatestIs ==
  ASSUME Typed, NEW e \in Engines
  PROVE  /\ DOMAIN designs[e] = {} => LatestDesign(e) = 0
         /\ DOMAIN designs[e] # {} => /\ LatestDesign(e) \in DOMAIN designs[e]
                                      /\ \A v \in DOMAIN designs[e] : v <= LatestDesign(e)
         /\ LatestDesign(e) \in 0 .. MaxVersion + revisions
<1>1. /\ DOMAIN designs[e] \in SUBSET (1 .. MaxVersion + revisions)
      /\ MaxVersion + revisions \in Nat /\ revisions \in Nat
  BY AssignmentAssumption, RevisionAssumption DEF Typed, DesignsTyped
<1>2. CASE DOMAIN designs[e] = {}
  BY <1>1, <1>2 DEF LatestDesign
<1>3. CASE DOMAIN designs[e] # {}
  <2> DEFINE S == DOMAIN designs[e]
             n == MaxVersion + revisions
  <2>1. /\ LatestDesign(e) = Max(S) /\ n \in Nat /\ S \in SUBSET (1 .. n) /\ S # {}
        /\ \A x \in S : x \in 0 .. n
    BY <1>1, <1>3 DEF LatestDesign
  <2> HIDE DEF S, n
  <2>2. Max(S) \in S /\ \A x \in S : x <= Max(S)
    BY <2>1, GreatestOf
  <2>3. Max(S) \in 0 .. n
    BY <2>1, <2>2
  <2>4. LatestDesign(e) \in S /\ LatestDesign(e) \in 0 .. n /\ \A x \in S : x <= LatestDesign(e)
    BY <2>1, <2>2, <2>3
  <2> QED
    BY <1>3, <2>4 DEF S, n
<1> QED
  BY <1>2, <1>3

(* A revision comes after the latest design of its engine.                 *)
LEMMA RevisionIs ==
  ASSUME Typed, NEW e \in Engines, Revise(e)
  PROVE  /\ DesignsTyped' /\ Grow
         /\ LatestDesign(e) \in DOMAIN designs[e]
         /\ \A d \in Engines \ {e} : designs'[d] = designs[d]
         /\ DOMAIN designs'[e] = DOMAIN designs[e] \cup {LatestDesign(e) + 1}
         /\ \A v \in DOMAIN designs[e] : designs'[e][v] = designs[e][v]
         /\ designs'[e][LatestDesign(e) + 1].revised
<1> DEFINE new == LatestDesign(e) + 1
           base == designs[e][LatestDesign(e)]
<1>1. PICK drops \in SUBSET base.scope, scope \in SUBSET (base.scope \cup Scope(Effective, e)) :
         \E fit \in {TRUE, base.fit, scope # {}} :
            designs' = [designs EXCEPT ![e] =
                           Put(@, new, [scope |-> scope, fit |-> fit, revised |-> TRUE])]
  BY DEF Revise
<1>1a. PICK fit \in {TRUE, base.fit, scope # {}} :
         designs' = [designs EXCEPT ![e] =
                        Put(@, new, [scope |-> scope, fit |-> fit, revised |-> TRUE])]
  BY <1>1
<1>2. revisions < MaxRevisions /\ revisions' = revisions + 1 /\ LatestDesign(e) # 0
  BY DEF Revise
<1>3. /\ LatestDesign(e) \in DOMAIN designs[e] /\ new \in 1 .. MaxVersion + revisions'
      /\ \A v \in DOMAIN designs[e] : v < new /\ v \in Int
      /\ revisions \in Nat /\ revisions' \in 0 .. MaxRevisions
  BY <1>2, LatestIs, AssignmentAssumption, RevisionAssumption DEF Typed, DesignsTyped
<1>4. Scope(Effective, e) \subseteq Queries /\ base \in Design
  BY <1>3 DEF Scope, Typed, DesignsTyped
<1>5. base.scope \subseteq Queries /\ base.fit \in BOOLEAN
  BY <1>4 DEF Design
<1> DEFINE d == [scope |-> scope, fit |-> fit, revised |-> TRUE]
<1>6. d \in Design
  <2>1. scope \in SUBSET Queries /\ fit \in BOOLEAN
    BY <1>1, <1>1a, <1>4, <1>5
  <2> QED
    BY <2>1 DEF Design
<1>7. d.revised
  OBVIOUS
<1> HIDE DEF d, new
<1>8. designs' = [designs EXCEPT ![e] = Put(designs[e], new, d)]
  BY <1>1a DEF d
<1>9. /\ DOMAIN designs' = Engines /\ designs'[e] = Put(designs[e], new, d)
      /\ \A c \in Engines \ {e} : designs'[c] = designs[c]
  BY <1>8 DEF Typed, DesignsTyped
<1>10. /\ DOMAIN designs'[e] = DOMAIN designs[e] \cup {new} /\ designs'[e][new] = d
       /\ \A v \in DOMAIN designs[e] : designs'[e][v] = designs[e][v]
  BY <1>3, <1>9 DEF Put
<1>11. DesignsTyped'
  <2>1. \A c \in Engines : /\ DOMAIN designs'[c] \subseteq 1 .. MaxVersion + revisions'
                           /\ \A v \in DOMAIN designs'[c] : designs'[c][v] \in Design
    <3> SUFFICES ASSUME NEW c \in Engines
                 PROVE  /\ DOMAIN designs'[c] \subseteq 1 .. MaxVersion + revisions'
                        /\ \A v \in DOMAIN designs'[c] : designs'[c][v] \in Design
      OBVIOUS
    <3>1. /\ DOMAIN designs[c] \subseteq 1 .. MaxVersion + revisions
          /\ \A v \in DOMAIN designs[c] : designs[c][v] \in Design
      BY DEF Typed, DesignsTyped
    <3>2. 1 .. MaxVersion + revisions \subseteq 1 .. MaxVersion + revisions'
      BY <1>2, <1>3, AssignmentAssumption
    <3>3. CASE c = e
      BY <1>3, <1>6, <1>10, <3>1, <3>2, <3>3
    <3>4. CASE c # e
      BY <1>9, <3>1, <3>2, <3>4
    <3> QED
      BY <3>3, <3>4
  <2> QED
    BY <1>3, <1>9, <2>1 DEF DesignsTyped
<1> QED
  BY <1>3, <1>7, <1>9, <1>10, <1>11 DEF Grow, new

-----------------------------------------------------------------------------
(***************************************************************************)
(* Every step keeps the types                                              *)
(***************************************************************************)

LEMMA IdleTyped == NoRun \in Run /\ NoDraft \in Draft /\ RouterIdle \in RouterFrame
  BY AssignmentAssumption DEF NoRun, Run, NoDraft, Draft, RouterIdle, RouterFrame, MaxDepth

LEMMA InitTyped == Init => Typed
<1> SUFFICES ASSUME Init PROVE Typed
  OBVIOUS
<1>1. PICK owner \in [Queries -> Engines] :
         asg = [v \in {1} |-> [source |-> "resolved", prev |-> 0, owner |-> owner, pinned |-> {}]]
  BY DEF Init
<1>2. PICK saved \in SUBSET EnginesOf(1) :
         designs = [e \in Engines |->
             IF e \in saved THEN [v \in {1} |-> [scope |-> Scope(1, e), fit |-> FALSE,
                                            revised |-> FALSE]]
             ELSE <<>>]
  BY DEF Init
<1>3. Versions = 1 .. 1 /\ Effective = 1
  <2>1. Versions = 1 .. 1
    BY <1>1 DEF Versions
  <2> QED
    BY <2>1, TopOfNumbered DEF Effective
<1>4. 1 \in Version /\ 1 \in 0 .. MaxVersion
  BY AssignmentAssumption, FlowAssumption DEF Version
<1>5. asg[1] \in Assignment /\ asg[1].source = "resolved" /\ asg[1].prev = 0
  BY <1>1, <1>4, AssignmentAssumption DEF Assignment, Source
<1>6. StoreTyped
  <2>1. Versions = {1}
    BY <1>3
  <2>2. chosen \in [Queries -> Engines \cup {NoEngine}]
    BY DEF Init, NothingChosen
  <2>3. LineageWellFormed
    BY <1>3, <1>5, <2>1 DEF LineageWellFormed
  <2> QED
    BY <1>3, <1>4, <1>5, <2>1, <2>2, <2>3 DEF StoreTyped, Version
<1>7. DesignsTyped
  <2>1. \A e \in Engines : [scope |-> Scope(1, e), fit |-> FALSE, revised |-> FALSE] \in Design
    <3>1. \A e \in Engines : Scope(1, e) \subseteq Queries
      BY DEF Scope
    <3> QED
      BY <3>1 DEF Design
  <2>2. revisions = 0
    BY DEF Init
  <2>3. 1 \in 1 .. MaxVersion + revisions /\ revisions \in 0 .. MaxRevisions
    BY <1>4, <2>2, AssignmentAssumption, RevisionAssumption DEF Version
  <2>4. DOMAIN <<>> = {}
    OBVIOUS
  <2>5. ASSUME NEW e \in Engines
        PROVE  /\ DOMAIN designs[e] \subseteq {1}
               /\ \A v \in DOMAIN designs[e] : designs[e][v] \in Design
    <3>1. CASE e \in saved
      BY <1>2, <2>1, <3>1
    <3>2. CASE e \notin saved
      BY <1>2, <2>4, <3>2
    <3> QED
      BY <3>1, <3>2
  <2>6. DOMAIN designs = Engines
    BY <1>2
  <2> QED
    BY <2>2, <2>3, <2>5, <2>6 DEF DesignsTyped
<1>8. NoRun \in Run /\ RouterIdle \in RouterFrame /\ NoRun.version = 0 /\ NoRun.status = "complete"
  BY IdleTyped DEF NoRun
<1>9. RouterIdle.pc = "idle"
  BY DEF RouterIdle
<1>10. RunTyped(NoRun) /\ FrameTyped(RouterIdle)
  BY <1>8, <1>9 DEF FrameTyped, RunTyped
<1>11. RoutersTyped
  <2>1. router = [p \in RouterProcs |-> RouterIdle] /\ ext = NoRun
    BY DEF Init
  <2> QED
    BY <1>8, <1>10, <2>1 DEF RoutersTyped
<1>12. edits = 0 /\ broken = FALSE
  BY DEF Init
<1>13. edits \in 0 .. MaxEdits
  BY <1>12, FlowAssumption
<1>14. broken \in BOOLEAN
  BY <1>12
<1> QED
  BY <1>6, <1>7, <1>11, <1>13, <1>14 DEF Typed

(* Frames stay typed where versions and designs stay.                      *)
LEMMA FrameStays ==
  ASSUME NEW f, FrameTyped(f), Versions \subseteq Versions', Grow, DOMAIN designs = Engines
  PROVE  FrameTyped(f)'
<1>1. DesignedOn(f.run.version) \subseteq DesignedOn(f.run.version)'
  BY DEF Grow, DesignedOn
<1> QED
  BY <1>1 DEF FrameTyped, RunTyped

(* A step of one routing, which leaves its frame typed.                    *)
LEMMA FramesKept ==
  ASSUME Typed, Versions \subseteq Versions', Grow, NEW self \in RouterProcs, NEW f,
         FrameTyped(f)', router' = [router EXCEPT ![self] = f], RunTyped(ext)'
  PROVE  RoutersTyped'
<1>1. router' \in [RouterProcs -> RouterFrame]
  BY DEF Typed, RoutersTyped, FrameTyped
<1>2. ASSUME NEW p \in RouterProcs PROVE FrameTyped(router[p])'
  <2>1. CASE p = self
    <3>1. router'[p] = f
      BY <2>1 DEF Typed, RoutersTyped
    <3> QED
      BY <3>1
  <2>2. CASE p # self
    <3>1. PICK g : g = router[p]
      OBVIOUS
    <3>2. FrameTyped(g)
      BY <3>1 DEF Typed, RoutersTyped
    <3>3. FrameTyped(g)'
      BY <3>2, FrameStays DEF Typed, DesignsTyped
    <3>4. router'[p] = g
      BY <2>2, <3>1 DEF Typed, RoutersTyped
    <3> QED
      BY <3>3, <3>4
  <2> QED
    BY <2>1, <2>2
<1> QED
  BY <1>1, <1>2 DEF RoutersTyped

(* A step that writes no version and no design.                            *)
LEMMA FilesStay ==
  ASSUME Typed, UNCHANGED <<asg, chosen, designVars>>
  PROVE  StoreTyped' /\ DesignsTyped' /\ Grow /\ Versions' = Versions
  BY DEF Typed, StoreTyped, DesignsTyped, designVars, Grow, Versions, Effective, LineageWellFormed

(* A run that ext holds is typed still.                                    *)
LEMMA ExtStays ==
  ASSUME Typed, ext' = ext, Versions \subseteq Versions'
  PROVE  RunTyped(ext)'
  BY DEF Typed, RoutersTyped, RunTyped

LEMMA StartTyped ==
  ASSUME Typed
  PROVE  StartRun(Effective) \in Run
  BY VersionsAre DEF Typed, StartRun, Run, MaxDepth

LEMMA BeginsTyped ==
  ASSUME Typed, NEW self \in RouterProcs,
         StartRouting(self) \/ (\E again \in BOOLEAN : ExternalStep(self, again)) \/ RollBackExternal(self)
  PROVE  StoreTyped' /\ DesignsTyped' /\ RoutersTyped'
<1>1. UNCHANGED <<asg, chosen, designVars, ext>>
  BY DEF StartRouting, ExternalStep, RollBackExternal
<1>2. StoreTyped' /\ DesignsTyped' /\ Grow /\ Versions' = Versions
  BY <1>1, FilesStay
<1>3. RunTyped(ext)'
  BY <1>1, <1>2, ExtStays
<1>4. CASE StartRouting(self)
  <2>1. PICK f : f = [RouterIdle EXCEPT !.pc = "pass", !.run = StartRun(Effective)]
    OBVIOUS
  <2>2. f \in RouterFrame /\ f.pc = "pass" /\ f.run.version = Effective
    BY <2>1, IdleTyped, StartTyped DEF RouterFrame, StartRun
  <2>3. FrameTyped(f)'
    BY <1>2, <2>2, VersionsAre DEF FrameTyped, Typed
  <2> QED
    BY <1>2, <1>3, <1>4, <2>1, <2>3, FramesKept DEF StartRouting
<1>5. CASE \E again \in BOOLEAN : ExternalStep(self, again)
  <2>1. PICK run : run = RunToContinue
    OBVIOUS
  <2>2. PICK f : f = [RouterIdle EXCEPT !.pc = "pass", !.external = TRUE, !.run = run]
    OBVIOUS
  <2>3. run \in Run /\ run.version = Effective
    BY <2>1, StartTyped, VersionsAre DEF RunToContinue, Typed, RoutersTyped, RunTyped, StartRun
  <2>4. f \in RouterFrame /\ f.pc = "pass" /\ f.run.version = Effective
    BY <2>2, <2>3, IdleTyped DEF RouterFrame
  <2>5. FrameTyped(f)'
    BY <1>2, <2>4, VersionsAre DEF FrameTyped, Typed
  <2>6. router' = [router EXCEPT ![self] = f]
    BY <1>5, <2>1, <2>2 DEF ExternalStep
  <2> QED
    BY <1>2, <1>3, <2>5, <2>6, FramesKept
<1>6. CASE RollBackExternal(self)
  <2>1. PICK f : f = [RouterIdle EXCEPT !.pc = "rollback", !.external = TRUE,
                         !.run = [ext EXCEPT !.version = ext.previous], !.new = ext.version,
                         !.designed = DesignedOn(ext.previous)]
    OBVIOUS
  <2>2. ext \in Run /\ ext.version \in Versions /\ ext.previous \in Versions /\ ext.previous < ext.version
    BY <1>6 DEF RollBackExternal, MayRollBack, Typed, RoutersTyped, RunTyped
  <2>3. [ext EXCEPT !.version = ext.previous] \in Run
    BY <2>2 DEF Run
  <2>4. DesignedOn(ext.previous) \subseteq Engines /\ ext.version \in 0 .. MaxVersion
    BY <2>2, VersionsAre DEF DesignedOn, Typed
  <2>5. /\ f \in RouterFrame /\ f.pc = "rollback" /\ f.run.version = ext.previous
        /\ f.new = ext.version /\ f.designed = DesignedOn(ext.previous)
    BY <2>1, <2>2, <2>3, <2>4, IdleTyped DEF RouterFrame, Run
  <2>6. DesignedOn(ext.previous) \subseteq DesignedOn(ext.previous)'
    BY <1>1 DEF DesignedOn, designVars
  <2>7. FrameTyped(f)'
    BY <1>1, <1>2, <2>2, <2>5, <2>6 DEF FrameTyped, DesignedOn, designVars
  <2> QED
    BY <1>2, <1>3, <1>6, <2>1, <2>7, FramesKept DEF RollBackExternal
<1> QED
  BY <1>4, <1>5, <1>6

LEMMA PassTyped ==
  ASSUME Typed, NEW self \in RouterProcs, Pass(self)
  PROVE  StoreTyped' /\ DesignsTyped' /\ RoutersTyped'
<1>1. UNCHANGED <<asg, chosen, designVars, ext>> /\ router[self].pc = "pass"
  BY DEF Pass, AtRouter
<1>2. StoreTyped' /\ DesignsTyped' /\ Grow /\ Versions' = Versions
  BY <1>1, FilesStay
<1>3. RunTyped(ext)'
  BY <1>1, <1>2, ExtStays
<1>4. PICK run : run = [MyRouting(self) EXCEPT !.kept = KeptNow(MyRouting(self))]
  OBVIOUS
<1>5. /\ router[self] \in RouterFrame /\ router[self].run \in Run
      /\ router[self].run.version \in Versions
  BY <1>1 DEF Typed, RoutersTyped, FrameTyped, RouterFrame
<1>6. run \in Run /\ run.version = router[self].run.version /\ run.depth = router[self].run.depth
  BY <1>4, <1>5 DEF MyRouting, KeptNow, Run
<1>7. ASSUME NEW to \in Placements(run),
             router' = [router EXCEPT ![self] =
                          [@ EXCEPT !.pc = "write", !.draft = RoutedDraft(run, to),
                                    !.run = [run EXCEPT !.routed = Remember(run, to)]]]
      PROVE  RoutersTyped'
  <2>1. PICK f : f = [router[self] EXCEPT !.pc = "write", !.draft = RoutedDraft(run, to),
                                          !.run = [run EXCEPT !.routed = Remember(run, to)]]
    OBVIOUS
  <2>2. /\ run.depth < MaxDepth /\ MovedBy(to) \subseteq Queries
        /\ RoutedDraft(run, to) \in Assignment
    BY <1>5, <1>6, <1>7, PlacementIs DEF Typed
  <2>3. RoutedDraft(run, to).prev = run.version
    BY DEF RoutedDraft
  <2>4. Remember(run, to) \subseteq Queries
    BY <1>6, <2>2 DEF Remember, Run
  <2>5. PICK r : r = [run EXCEPT !.routed = Remember(run, to)]
    OBVIOUS
  <2>6. r \in Run /\ r.version = run.version /\ r.depth = run.depth
    BY <1>6, <2>4, <2>5 DEF Run
  <2>7. PICK a : a = RoutedDraft(run, to)
    OBVIOUS
  <2>8. f = [router[self] EXCEPT !.pc = "write", !.draft = a, !.run = r]
    BY <2>1, <2>5, <2>7
  <2>9. f \in RouterFrame /\ f.pc = "write" /\ f.draft = a /\ f.run = r
    BY <1>5, <2>2, <2>6, <2>7, <2>8 DEF RouterFrame, Draft
  <2>10. FrameTyped(f)'
    BY <1>2, <1>5, <1>6, <2>2, <2>3, <2>6, <2>7, <2>9 DEF FrameTyped
  <2> QED
    BY <1>2, <1>3, <1>7, <2>1, <2>10, FramesKept
<1>8. ASSUME router' = [router EXCEPT ![self].run = [run EXCEPT !.status = "complete"],
                                      ![self].pc = IF External(self) THEN "save" ELSE "returned"]
      PROVE  RoutersTyped'
  <2>1. PICK r : r = [run EXCEPT !.status = "complete"]
    OBVIOUS
  <2>2. r \in Run /\ r.version = run.version /\ r.status = "complete"
    BY <1>6, <2>1 DEF Run
  <2>3. PICK f : f = [router[self] EXCEPT !.run = r, !.pc = IF External(self) THEN "save" ELSE "returned"]
    OBVIOUS
  <2>4. f \in RouterFrame /\ f.pc \in {"save", "returned"} /\ f.run = r
    BY <1>5, <2>2, <2>3 DEF RouterFrame
  <2>5. FrameTyped(f)'
    BY <1>2, <1>5, <1>6, <2>2, <2>4 DEF FrameTyped, RunTyped
  <2>6. router' = [router EXCEPT ![self] = f]
    BY <1>8, <2>1, <2>3
  <2> QED
    BY <1>2, <1>3, <2>5, <2>6, FramesKept
<1> QED
  BY <1>2, <1>4, <1>7, <1>8 DEF Pass

LEMMA WriteRerouteTyped ==
  ASSUME Typed, NEW self \in RouterProcs, WriteReroute(self)
  PROVE  StoreTyped' /\ DesignsTyped' /\ RoutersTyped'
<1>1. PICK new : new = Max({NextVersion, MyRouting(self).version + 1})
  OBVIOUS
<1>2. /\ router[self].pc = "write" /\ new <= MaxVersion /\ WriteAssignment(new, router[self].draft)
      /\ UNCHANGED <<chosen, designVars, ext>>
      /\ router' = [router EXCEPT ![self] =
                       [@ EXCEPT !.pc = "carry", !.new = new,
                                 !.designed = DesignedOn(MyRouting(self).version)]]
  BY <1>1 DEF WriteReroute, AtRouter
<1>3. PICK f : f = [router[self] EXCEPT !.pc = "carry", !.new = new,
                                        !.designed = DesignedOn(MyRouting(self).version)]
  OBVIOUS
<1>4. /\ router[self] \in RouterFrame /\ router[self].run.version \in Versions
      /\ router[self].draft \in Assignment /\ router[self].draft.prev = router[self].run.version
      /\ router[self].run.depth < MaxDepth
  BY <1>2 DEF Typed, RoutersTyped, FrameTyped
<1>5. new = Effective + 1 /\ Effective \in Nat /\ router[self].run.version \in 1 .. Effective
  <2>1. Effective \in Nat /\ NextVersion = Effective + 1 /\ router[self].run.version \in 1 .. Effective
    BY <1>4, VersionsAre DEF Typed
  <2>2. NextVersion \in Int /\ router[self].run.version + 1 \in Int
        /\ NextVersion >= router[self].run.version + 1
    BY <2>1
  <2>3. new = NextVersion
    BY <1>1, <2>2, MaxOfTwo DEF MyRouting
  <2> QED
    BY <2>1, <2>3
<1>6. PICK a : a = router[self].draft
  OBVIOUS
<1>7. /\ new \in 1 .. Effective + 1 /\ a \in Assignment /\ a.prev < new /\ a.prev \in Versions
      /\ WriteAssignment(new, a) /\ chosen' \in [Queries -> Engines \cup {NoEngine}]
  BY <1>2, <1>4, <1>5, <1>6 DEF Typed, StoreTyped
<1>8. StoreTyped' /\ Versions \subseteq Versions' /\ new \in Versions'
  BY <1>2, <1>7, WriteStore DEF Typed
<1>9. DesignsTyped' /\ Grow
  BY <1>2 DEF Typed, DesignsTyped, designVars, Grow
<1>10. DesignedOn(router[self].run.version) \subseteq Engines
       /\ new \in 0 .. MaxVersion
  BY <1>2, <1>5 DEF DesignedOn
<1>11. /\ f \in RouterFrame /\ f.pc = "carry" /\ f.new = new /\ f.run = router[self].run
       /\ f.designed = DesignedOn(f.run.version)
  BY <1>3, <1>4, <1>10 DEF MyRouting, RouterFrame
<1>12. FrameTyped(f)'
  BY <1>2, <1>4, <1>5, <1>8, <1>11 DEF FrameTyped, DesignedOn, designVars
<1>13. RunTyped(ext)'
  BY <1>2, <1>8, ExtStays
<1> QED
  BY <1>2, <1>3, <1>8, <1>9, <1>12, <1>13, FramesKept

(* The run after one more reroute.                                         *)
LEMMA AfterRerouteIs ==
  ASSUME StoreTyped, NEW run \in Run, NEW new \in Versions, run.version \in Versions,
         run.version < new, run.depth < MaxDepth
  PROVE  /\ AfterReroute(run, new) \in Run /\ RunTyped(AfterReroute(run, new))
         /\ AfterReroute(run, new).version = new
         /\ AfterReroute(run, new).previous = run.version
         /\ AfterReroute(run, new).status = "awaiting_redesign"
         /\ AfterReroute(run, new).start = run.start
         /\ AfterReroute(run, new).depth = run.depth + 1
         /\ AfterReroute(run, new).routed = run.routed
         /\ AfterReroute(run, new).redesign = Affected(run.version, new)
         /\ Affected(run.version, new) \subseteq EnginesOf(new)
         /\ EnginesOf(new) \subseteq Engines
<1>1. /\ Affected(run.version, new) \subseteq EnginesOf(new) /\ EnginesOf(new) \subseteq Engines
      /\ new \in 0 .. MaxVersion
  BY VersionsAre DEF Affected
<1>2. PICK as : as = Affected(run.version, new)
  OBVIOUS
<1>3. AfterReroute(run, new) = [run EXCEPT !.status = "awaiting_redesign", !.version = new,
                                          !.previous = run.version, !.depth = run.depth + 1,
                                          !.redesign = as]
  BY <1>2 DEF AfterReroute
<1>4. /\ as \in SUBSET Engines /\ run.depth + 1 \in 0 .. MaxDepth + 1
  BY <1>1, <1>2 DEF Run, MaxDepth
<1>5. PICK r : r = AfterReroute(run, new)
  OBVIOUS
<1>6. /\ r \in Run /\ r.version = new /\ r.previous = run.version
      /\ r.status = "awaiting_redesign" /\ r.start = run.start /\ r.depth = run.depth + 1
      /\ r.routed = run.routed /\ r.redesign = as
  BY <1>1, <1>3, <1>4, <1>5 DEF Run
<1>7. RunTyped(r)
  BY <1>6 DEF RunTyped
<1> QED
  BY <1>1, <1>2, <1>5, <1>6, <1>7

LEMMA CarryTyped ==
  ASSUME Typed, NEW self \in RouterProcs, Carry(self)
  PROVE  StoreTyped' /\ DesignsTyped' /\ RoutersTyped'
<1>1. PICK run, new : run = MyRouting(self) /\ new = router[self].new
  OBVIOUS
<1>0. PICK carried : carried = Carried(run.version, new) \cap router[self].designed
  OBVIOUS
<1>2. /\ router[self] \in RouterFrame /\ router[self].pc = "carry" /\ run \in Run
      /\ run.version \in Versions /\ new \in Versions /\ run.version < new /\ run.depth < MaxDepth
      /\ router[self].designed \subseteq DesignedOn(run.version)
      /\ asg' = asg /\ chosen' = chosen /\ revisions' = revisions /\ ext' = ext
  BY <1>1 DEF Carry, AtRouter, MyRouting, Typed, RoutersTyped, FrameTyped, RouterFrame
<1>3. StoreTyped' /\ Versions' = Versions
  BY <1>2 DEF Typed, StoreTyped, Versions, Effective, LineageWellFormed
<1>4. RunTyped(ext)'
  BY <1>2, <1>3, ExtStays
<1>5. PICK ar : ar = AfterReroute(run, new)
  OBVIOUS
<1>6. PICK lr : lr = [run EXCEPT !.redesign = Affected(run.version, new)]
  OBVIOUS
<1>7. /\ ar \in Run /\ RunTyped(ar) /\ ar.version = new
      /\ Affected(run.version, new) \subseteq Engines
  BY <1>2, <1>5, AfterRerouteIs DEF Typed
<1>8. lr \in Run /\ lr.version = run.version /\ lr.depth = run.depth
  BY <1>2, <1>6, <1>7 DEF Run
<1>9. CASE carried = Fit(run.version, carried)
  <2>1. /\ CopyDesigns(carried, run.version, new)
        /\ router' = [router EXCEPT
              ![self].pc = IF External(self) THEN "save" ELSE "redesign",
              ![self].run = IF External(self) THEN ar ELSE lr]
    BY <1>0, <1>1, <1>5, <1>6, <1>9 DEF Carry
  <2>2. carried \in SUBSET Engines /\ carried \subseteq DesignedOn(run.version)
    BY <1>0 DEF Carried, DesignedOn
  <2>3. DesignsTyped' /\ Grow
    <3>1. new \in Versions' /\ Versions' \subseteq Version
      BY <1>2, <1>3, VersionsAre DEF Typed, Version
    <3> QED
      BY <1>2, <2>1, <2>2, <3>1, CopyIs
  <2>4. PICK f : f = [router[self] EXCEPT !.pc = IF External(self) THEN "save" ELSE "redesign",
                                          !.run = IF External(self) THEN ar ELSE lr]
    OBVIOUS
  <2>5. router' = [router EXCEPT ![self] = f]
    BY <2>1, <2>4
  <2>6. /\ f \in RouterFrame /\ f.new = new /\ f.designed = router[self].designed
        /\ (f.pc = "save" /\ f.run = ar) \/ (f.pc = "redesign" /\ f.run = lr)
    <3>1. CASE External(self)
      BY <1>1, <1>2, <1>7, <2>4, <3>1 DEF RouterFrame
    <3>2. CASE ~External(self)
      BY <1>1, <1>2, <1>8, <2>4, <3>2 DEF RouterFrame
    <3> QED
      BY <3>1, <3>2
  <2>7. DesignedOn(run.version) \subseteq DesignedOn(run.version)'
    BY <2>3 DEF Grow, DesignedOn, Typed, DesignsTyped
  <2>8. FrameTyped(f)'
    BY <1>2, <1>3, <1>7, <1>8, <2>6, <2>7 DEF FrameTyped, RunTyped
  <2> QED
    BY <1>3, <1>4, <2>3, <2>5, <2>8, FramesKept
<1>10. CASE carried # Fit(run.version, carried)
  <2>1. designs' = designs /\ router' = [router EXCEPT ![self].pc = "rollback"]
    BY <1>0, <1>1, <1>10 DEF Carry
  <2>2. DesignsTyped' /\ Grow
    BY <1>2, <2>1 DEF Typed, DesignsTyped, Grow
  <2>3. PICK f : f = [router[self] EXCEPT !.pc = "rollback"]
    OBVIOUS
  <2>4. /\ f \in RouterFrame /\ f.new = new /\ f.designed = router[self].designed
        /\ f.pc = "rollback" /\ f.run = run
    BY <1>1, <1>2, <2>3 DEF RouterFrame, MyRouting
  <2>5. FrameTyped(f)'
    BY <1>2, <1>3, <2>1, <2>4 DEF FrameTyped, DesignedOn
  <2> QED
    BY <1>3, <1>4, <2>1, <2>2, <2>3, <2>5, FramesKept
<1> QED
  BY <1>9, <1>10

LEMMA RedesignTyped ==
  ASSUME Typed, NEW self \in RouterProcs, Redesign(self) \/ RedesignFails(self)
  PROVE  StoreTyped' /\ DesignsTyped' /\ RoutersTyped'
<1>1. PICK run, new : run = MyRouting(self) /\ new = router[self].new
  OBVIOUS
<1>2. /\ router[self] \in RouterFrame /\ router[self].pc = "redesign" /\ run \in Run
      /\ run.version \in Versions /\ new \in Versions /\ run.version < new /\ run.depth < MaxDepth
      /\ router[self].designed \subseteq DesignedOn(run.version)
      /\ asg' = asg /\ chosen' = chosen /\ ext' = ext
  BY <1>1 DEF Redesign, RedesignFails, AtRouter, MyRouting, Typed, RoutersTyped, FrameTyped,
              RouterFrame
<1>3. StoreTyped' /\ Versions' = Versions
  BY <1>2 DEF Typed, StoreTyped, Versions, Effective, LineageWellFormed
<1>4. RunTyped(ext)'
  BY <1>2, <1>3, ExtStays
<1>5. CASE Redesign(self) /\ run.redesign = {}
  <2>1. PICK ar : ar = AfterReroute(run, new)
    OBVIOUS
  <2>2. ar \in Run /\ ar.version = new
    BY <1>2, <2>1, AfterRerouteIs DEF Typed
  <2>3. PICK f : f = [router[self] EXCEPT !.pc = "pass", !.run = ar]
    OBVIOUS
  <2>4. router' = [router EXCEPT ![self] = f] /\ UNCHANGED designVars
    BY <1>1, <1>5, <2>1, <2>3 DEF Redesign
  <2>5. f \in RouterFrame /\ f.pc = "pass" /\ f.run = ar
    BY <1>2, <2>2, <2>3 DEF RouterFrame
  <2>6. FrameTyped(f)'
    BY <1>2, <1>3, <2>2, <2>5 DEF FrameTyped
  <2>7. DesignsTyped' /\ Grow
    BY <2>4 DEF Typed, DesignsTyped, designVars, Grow
  <2> QED
    BY <1>3, <1>4, <2>4, <2>6, <2>7, FramesKept
<1>6. CASE Redesign(self) /\ run.redesign # {}
  <2>1. PICK e \in run.redesign : /\ DesignEngine(e, new)
                                  /\ router' = [router EXCEPT ![self].run.redesign = @ \ {e}]
    BY <1>1, <1>6 DEF Redesign
  <2>2. e \in Engines
    BY <1>2 DEF Run
  <2>3. DesignsTyped' /\ Grow
    BY <1>2, <2>1, <2>2, DesignIs
  <2>4. PICK r : r = [run EXCEPT !.redesign = @ \ {e}]
    OBVIOUS
  <2>5. r \in Run /\ r.version = run.version /\ r.depth = run.depth
    BY <1>2, <2>4 DEF Run
  <2>6. PICK f : f = [router[self] EXCEPT !.run = r]
    OBVIOUS
  <2>7. router' = [router EXCEPT ![self] = f]
    BY <1>1, <2>1, <2>4, <2>6 DEF MyRouting
  <2>8. /\ f \in RouterFrame /\ f.pc = "redesign" /\ f.run = r /\ f.new = new
        /\ f.designed = router[self].designed
    BY <1>1, <1>2, <2>5, <2>6 DEF RouterFrame
  <2>9. DesignedOn(run.version) \subseteq DesignedOn(run.version)'
    BY <2>3 DEF Grow, DesignedOn, Typed, DesignsTyped
  <2>10. FrameTyped(f)'
    BY <1>2, <1>3, <2>5, <2>8, <2>9 DEF FrameTyped
  <2> QED
    BY <1>3, <1>4, <2>3, <2>7, <2>10, FramesKept
<1>7. CASE RedesignFails(self)
  <2>1. PICK f : f = [router[self] EXCEPT !.pc = "rollback"]
    OBVIOUS
  <2>2. router' = [router EXCEPT ![self] = f] /\ UNCHANGED designVars
    BY <1>7, <2>1 DEF RedesignFails
  <2>3. /\ f \in RouterFrame /\ f.pc = "rollback" /\ f.run = run /\ f.new = new
        /\ f.designed = router[self].designed
    BY <1>1, <1>2, <2>1 DEF RouterFrame, MyRouting
  <2>4. FrameTyped(f)'
    BY <1>2, <1>3, <2>2, <2>3 DEF FrameTyped, DesignedOn, designVars
  <2>5. DesignsTyped' /\ Grow
    BY <2>2 DEF Typed, DesignsTyped, designVars, Grow
  <2> QED
    BY <1>3, <1>4, <2>2, <2>4, <2>5, FramesKept
<1> QED
  BY <1>5, <1>6, <1>7

LEMMA RollBackTyped ==
  ASSUME Typed, NEW self \in RouterProcs, RollBack(self)
  PROVE  StoreTyped' /\ DesignsTyped' /\ RoutersTyped'
<1>1. PICK run, new : run = MyRouting(self) /\ new = router[self].new
  OBVIOUS
<1>2. /\ router[self] \in RouterFrame /\ router[self].pc = "rollback" /\ run \in Run
      /\ run.version \in Versions /\ new \in Versions /\ run.version < new /\ new < MaxVersion
      /\ router[self].designed \subseteq DesignedOn(run.version)
      /\ UNCHANGED <<chosen, designVars, ext>>
      /\ router' = [router EXCEPT ![self].pc = "restate"]
  BY <1>1 DEF RollBack, AtRouter, MyRouting, Typed, RoutersTyped, FrameTyped, RouterFrame
<1>3. PICK a : a = [asg[run.version] EXCEPT !.source = "post_schema_routing", !.prev = new]
  OBVIOUS
<1>4. WriteAssignment(new + 1, a)
  BY <1>1, <1>3 DEF RollBack
<1>5. /\ asg[run.version] \in Assignment /\ new \in 1 .. Effective /\ Effective \in Nat
      /\ new + 1 \in 1 .. Effective + 1 /\ new + 1 <= MaxVersion /\ new \in 0 .. MaxVersion
  BY <1>2, VersionsAre DEF Typed
<1>6. a \in Assignment /\ a.prev = new
  BY <1>3, <1>5 DEF Assignment, Source
<1>7. chosen' \in [Queries -> Engines \cup {NoEngine}]
  BY <1>2 DEF Typed, StoreTyped
<1>8. PICK v : v = new + 1
  OBVIOUS
<1>9. /\ v \in 1 .. Effective + 1 /\ v <= MaxVersion /\ a.prev < v /\ a.prev \in Versions
      /\ WriteAssignment(v, a)
  BY <1>2, <1>4, <1>5, <1>6, <1>8
<1>10. StoreTyped' /\ Versions \subseteq Versions' /\ v \in Versions'
  BY <1>6, <1>7, <1>9, WriteStore DEF Typed
<1>11. PICK f : f = [router[self] EXCEPT !.pc = "restate"]
  OBVIOUS
<1>12. /\ f \in RouterFrame /\ f.pc = "restate" /\ f.run = run /\ f.new = new
       /\ f.designed = router[self].designed
  BY <1>1, <1>2, <1>11 DEF RouterFrame, MyRouting
<1>13. FrameTyped(f)'
  BY <1>2, <1>8, <1>10, <1>12 DEF FrameTyped, DesignedOn, designVars
<1>14. DesignsTyped' /\ Grow
  BY <1>2 DEF Typed, DesignsTyped, designVars, Grow
<1>15. RunTyped(ext)'
  BY <1>2, <1>10, ExtStays
<1> QED
  BY <1>2, <1>10, <1>11, <1>13, <1>14, <1>15, FramesKept

LEMMA RestateTyped ==
  ASSUME Typed, NEW self \in RouterProcs, Restate(self)
  PROVE  StoreTyped' /\ DesignsTyped' /\ RoutersTyped'
<1>1. PICK run, new, es : run = MyRouting(self) /\ new = router[self].new /\ es = Restated(self)
  OBVIOUS
<1>2. /\ router[self] \in RouterFrame /\ router[self].pc = "restate" /\ run \in Run
      /\ run.version \in Versions /\ new + 1 \in Versions /\ run.version < new /\ new \in Versions
      /\ router[self].designed \subseteq DesignedOn(run.version)
      /\ UNCHANGED <<asg, chosen, revisions, ext>>
      /\ CopyDesigns(es, run.version, new + 1)
  BY <1>1 DEF Restate, AtRouter, MyRouting, Typed, RoutersTyped, FrameTyped, RouterFrame
<1>3. StoreTyped' /\ Versions' = Versions
  BY <1>2 DEF Typed, StoreTyped, Versions, Effective, LineageWellFormed
<1>4. PICK r, v : /\ r = [run EXCEPT !.status = "rolled_back", !.previous = run.version,
                                      !.version = new + 1]
                  /\ v = new + 1
  OBVIOUS
<1>5. /\ run.version \in 0 .. MaxVersion /\ v \in 0 .. MaxVersion /\ v \in Version
      /\ Versions' \subseteq Version
  BY <1>2, <1>3, <1>4, VersionsAre DEF Typed, Version
<1>6. r \in Run /\ r.version = v /\ r.status = "rolled_back"
  BY <1>2, <1>4, <1>5 DEF Run
<1>7. es \in SUBSET Engines /\ es \subseteq DesignedOn(run.version)
  BY <1>1, <1>2 DEF Restated, Fit, DesignedOn
<1>8. DesignsTyped' /\ Grow
  BY <1>2, <1>3, <1>4, <1>5, <1>7, CopyIs
<1>9. PICK f : f = [router[self] EXCEPT !.run = r, !.pc = IF External(self) THEN "save" ELSE "raised"]
  OBVIOUS
<1>10. router' = [router EXCEPT ![self] = f]
  BY <1>1, <1>4, <1>9 DEF Restate
<1>11. f \in RouterFrame /\ f.pc \in {"save", "raised"} /\ f.run = r
  BY <1>2, <1>6, <1>9 DEF RouterFrame
<1>12. FrameTyped(f)'
  BY <1>2, <1>3, <1>4, <1>6, <1>11 DEF FrameTyped, RunTyped
<1>13. RunTyped(ext)'
  BY <1>2, <1>3, ExtStays
<1> QED
  BY <1>3, <1>8, <1>10, <1>12, <1>13, FramesKept

LEMMA EndsTyped ==
  ASSUME Typed, NEW self \in RouterProcs, Save(self) \/ RouterStops(self)
  PROVE  StoreTyped' /\ DesignsTyped' /\ RoutersTyped'
<1>1. UNCHANGED <<asg, chosen, designVars>> /\ router' = [router EXCEPT ![self] = RouterIdle]
  BY DEF Save, RouterStops
<1>2. StoreTyped' /\ DesignsTyped' /\ Grow /\ Versions' = Versions
  BY <1>1, FilesStay
<1>3. PICK f : f = RouterIdle
  OBVIOUS
<1>4. f \in RouterFrame /\ f.pc = "idle"
  BY <1>3, IdleTyped DEF RouterIdle
<1>5. FrameTyped(f)'
  BY <1>4 DEF FrameTyped
<1>6. RunTyped(ext)'
  <2>1. CASE Save(self)
    <3>1. ext' = router[self].run /\ router[self].pc = "save"
      BY <2>1 DEF Save, AtRouter, MyRouting
    <3>2. RunTyped(router[self].run)
      BY <3>1 DEF Typed, RoutersTyped, FrameTyped
    <3> QED
      BY <1>2, <3>1, <3>2 DEF RunTyped
  <2>2. CASE RouterStops(self)
    BY <1>2, <2>2, ExtStays DEF RouterStops
  <2> QED
    BY <2>1, <2>2
<1> QED
  BY <1>1, <1>2, <1>3, <1>5, <1>6, FramesKept

(* Routings stay typed where others write versions and designs.            *)
LEMMA RoutersStay ==
  ASSUME Typed, Versions \subseteq Versions', Grow, UNCHANGED routerVars
  PROVE  RoutersTyped'
<1>1. RunTyped(ext)'
  BY ExtStays DEF routerVars
<1>2. ASSUME NEW p \in RouterProcs PROVE FrameTyped(router[p])'
  <2>1. PICK g : g = router[p]
    OBVIOUS
  <2>2. FrameTyped(g)
    BY <2>1 DEF Typed, RoutersTyped
  <2>3. FrameTyped(g)'
    BY <2>2, FrameStays DEF Typed, DesignsTyped
  <2> QED
    BY <2>1, <2>3 DEF routerVars
<1> QED
  BY <1>1, <1>2 DEF Typed, RoutersTyped, routerVars

LEMMA EditTyped ==
  ASSUME Typed, EditAssignment
  PROVE  StoreTyped' /\ DesignsTyped' /\ RoutersTyped'
<1>1. PICK a \in Edits(Effective) :
         WriteAssignment(NextVersion, a) /\ chosen' = PicksOf(a) /\ Effective < MaxVersion
  BY DEF EditAssignment
<1>2. PICK v : v = NextVersion
  OBVIOUS
<1>3. /\ Effective \in Versions /\ v \in 1 .. Effective + 1 /\ v <= MaxVersion /\ Effective < v
      /\ WriteAssignment(v, a)
  BY <1>1, <1>2, VersionsAre DEF Typed
<1>4. a \in Assignment /\ a.prev = Effective
  BY <1>3, EditIs DEF Typed
<1>5. chosen' \in [Queries -> Engines \cup {NoEngine}]
  BY <1>1, <1>4 DEF PicksOf, Assignment
<1>6. StoreTyped' /\ Versions \subseteq Versions'
  BY <1>3, <1>4, <1>5, WriteStore DEF Typed
<1>7. UNCHANGED designVars /\ UNCHANGED routerVars
  BY DEF EditAssignment
<1>8. DesignsTyped' /\ Grow
  BY <1>7 DEF Typed, DesignsTyped, designVars, Grow
<1> QED
  BY <1>6, <1>7, <1>8, RoutersStay

(* A redispatch copies designs that are there, of the latest version with  *)
(* one before this.                                                        *)
LEMMA RedispatchIs ==
  ASSUME Typed, Redispatch
  PROVE  \E prev \in Versions : \E es \in SUBSET Carried(prev, Effective) :
            prev < Effective /\ CopyDesigns(es, prev, Effective)
<1> DEFINE S == DesignedBefore
           n == Effective
<1>1. n \in Nat /\ n >= 1 /\ Versions = 1 .. n
  BY VersionsAre DEF Typed
<1>2. /\ S \in SUBSET (1 .. n - 1) /\ S # {} /\ n - 1 \in Nat
      /\ \A x \in S : x \in 1 .. n - 1
  <2>1. S = (UNION {DOMAIN designs[e] : e \in Engines}) \cap (1 .. n - 1) /\ S # {}
    BY DEF Redispatch, DesignedBefore
  <2> HIDE DEF S, n
  <2>2. \A x \in S : x \in 1 .. n - 1
    BY <2>1, Zenon
  <2>3. n - 1 \in Nat
    BY <1>1
  <2>4. S # {}
    BY <2>1
  <2> QED
    BY <2>2, <2>3, <2>4
<1>3. Max(S) \in S
  <2>1. PICK m : m = n - 1
    OBVIOUS
  <2> HIDE DEF S, n
  <2> QED
    BY <1>2, <2>1, GreatestOf
<1> HIDE DEF S
<1>4. PICK prev : prev = Max(S)
  OBVIOUS
<1>5. prev \in Versions /\ prev < Effective
  <2>1. prev \in 1 .. n - 1
    BY <1>2, <1>3, <1>4
  <2> QED
    BY <1>1, <2>1
<1>6. CopyDesigns(Fit(prev, Carried(prev, Effective)), prev, Effective)
  BY <1>4 DEF Redispatch, S
<1>7. Fit(prev, Carried(prev, Effective)) \subseteq Carried(prev, Effective)
  BY DEF Fit
<1> QED
  BY <1>5, <1>6, <1>7

LEMMA DesignerTyped ==
  ASSUME Typed, Designer
  PROVE  StoreTyped' /\ DesignsTyped' /\ RoutersTyped'
<1>1. asg' = asg /\ chosen' = chosen /\ UNCHANGED routerVars
  BY DEF Designer
<1>2. StoreTyped' /\ Versions' = Versions
  BY <1>1 DEF Typed, StoreTyped, Versions, Effective, LineageWellFormed
<1>3. PICK v : v = Effective
  OBVIOUS
<1>4. v \in Versions /\ EnginesOf(v) \subseteq Engines /\ Versions \subseteq Version
  BY <1>3, VersionsAre DEF Typed, Version
<1>5. DesignsTyped' /\ Grow
  <2>1. CASE \E e \in EnginesOf(v) \ DesignedOn(v) : DesignEngine(e, v)
    BY <1>4, <2>1, DesignIs
  <2>2. CASE Redispatch
    <3>1. PICK prev, es : es \in SUBSET Carried(prev, v) /\ CopyDesigns(es, prev, v)
      BY <1>3, <2>2, RedispatchIs
    <3>2. es \in SUBSET Engines /\ es \subseteq DesignedOn(prev)
      BY <3>1 DEF Carried, DesignedOn
    <3> QED
      BY <1>2, <1>4, <2>2, <3>1, <3>2, CopyIs DEF Redispatch
  <2> QED
    BY <1>3, <2>1, <2>2 DEF Designer
<1> QED
  BY <1>1, <1>2, <1>5, RoutersStay

LEMMA ReviewerTyped ==
  ASSUME Typed, Reviewer
  PROVE  StoreTyped' /\ DesignsTyped' /\ RoutersTyped'
<1>1. asg' = asg /\ chosen' = chosen /\ UNCHANGED routerVars
  BY DEF Reviewer
<1>2. StoreTyped' /\ Versions' = Versions
  BY <1>1 DEF Typed, StoreTyped, Versions, Effective, LineageWellFormed
<1>3. EnginesOf(Effective) \subseteq Engines
  BY VersionsAre DEF Typed
<1>4. PICK e \in Engines : Revise(e)
  BY <1>3 DEF Reviewer
<1>5. DesignsTyped' /\ Grow
  BY <1>4, RevisionIs
<1> QED
  BY <1>1, <1>2, <1>5, RoutersStay

LEMMA NextTyped == Typed /\ [Next]_schemaVars => Typed'
<1> SUFFICES ASSUME Typed, [Next]_schemaVars PROVE Typed'
  OBVIOUS
<1>1. CASE UNCHANGED schemaVars
  <2>1. UNCHANGED <<asg, chosen, designVars, routerVars, edits, broken>>
    BY <1>1 DEF schemaVars
  <2>2. StoreTyped' /\ DesignsTyped' /\ Grow /\ Versions' = Versions
    BY <2>1, FilesStay
  <2>3. RoutersTyped'
    BY <2>1, <2>2, RoutersStay
  <2> QED
    BY <2>1, <2>2, <2>3 DEF Typed
<1>2. ASSUME Next PROVE StoreTyped' /\ DesignsTyped' /\ RoutersTyped'
  <2>1. CASE EditAssignment \/ Designer \/ Reviewer
    BY <2>1, EditTyped, DesignerTyped, ReviewerTyped
  <2>2. ASSUME NEW p \in RouterProcs, Routing(p) PROVE StoreTyped' /\ DesignsTyped' /\ RoutersTyped'
    <3>1. broken \in BOOLEAN
      BY DEF Typed
    <3> QED
      BY <2>2, <3>1, BeginsTyped, PassTyped, WriteRerouteTyped, CarryTyped, RedesignTyped,
         RollBackTyped, RestateTyped, EndsTyped DEF Routing, RouterStep
  <2> QED
    BY <1>2, <2>1, <2>2 DEF Next
<1>3. ASSUME Next PROVE edits' \in 0 .. MaxEdits
  BY <1>3, FlowAssumption DEF Typed, Next, EditAssignment, Designer, Reviewer, Routing
<1>4. ASSUME Next PROVE broken' \in BOOLEAN
  BY <1>4 DEF Typed, Next, EditAssignment, Designer, Reviewer, Routing
<1> QED
  BY <1>1, <1>2, <1>3, <1>4 DEF Typed

(* The types of the versions, the designs, and the memory of every routing,*)
(* whatever overlaps and whatever stops.                                   *)
THEOREM SchemaTypes == Spec => []SchemaTypeOK
<1>1. Typed => SchemaTypeOK
  <2> SUFFICES ASSUME Typed PROVE SchemaTypeOK
    OBVIOUS
  <2>1. /\ Versions \subseteq Version /\ \A v \in Versions : asg[v] \in Assignment
        /\ chosen \in [Queries -> Engines \cup {NoEngine}]
    BY VersionsAre DEF Typed, StoreTyped, Version
  <2>2. \A e \in Engines : DOMAIN designs[e] \subseteq DesignVersion
    BY AssignmentAssumption, RevisionAssumption DEF Typed, DesignsTyped, DesignVersion
  <2> QED
    BY <2>1, <2>2 DEF Typed, DesignsTyped, RoutersTyped, RunTyped, SchemaTypeOK
<1> QED
  BY <1>1, InitTyped, NextTyped, PTL DEF Spec

(* Routings, rollbacks and edits that overlap may take each other's        *)
(* numbers, yet leave no gap, and every version names an earlier one.      *)
THEOREM SchemaLineages == Spec => []LineageWellFormed
<1>1. Typed => LineageWellFormed
  BY DEF Typed, StoreTyped
<1> QED
  BY <1>1, InitTyped, NextTyped, PTL DEF Spec
-----------------------------------------------------------------------------
(***************************************************************************)
(* A routing, local or a step at a time, that nobody disturbs              *)
(***************************************************************************)

OneRouter == \A p, r \in RouterProcs : p = r

Together(owner) == \A q, r \in WriteGroup : owner[q] = owner[r]

(* The customer's picks are in a version.                                  *)
Stands(v) ==
    \A q \in Queries : chosen[q] # NoEngine => asg[v].owner[q] = chosen[q] /\ q \in asg[v].pinned

SamePicks(v, w) ==
    /\ asg[w].pinned = asg[v].pinned
    /\ \A q \in asg[v].pinned : asg[w].owner[q] = asg[v].owner[q]

Moves(v, q) == asg[v].owner[q] # asg[asg[v].prev].owner[q]

(* A run remembers what its versions moved, and moved nothing twice; the   *)
(* writes of a table it moved together, or not at all.                     *)
Traced(run) ==
    /\ run.start <= run.version /\ run.version <= run.start + run.depth
    /\ run.depth <= MaxDepth /\ run.version <= Effective
    /\ run.version # 0 => run.start # 0
    /\ WriteGroup \subseteq run.routed \/ WriteGroup \cap run.routed = {}
    /\ \A q \in Queries : \A v \in Rerouted(run) : Moves(v, q) =>
          q \in run.routed /\ \A w \in Rerouted(run) : Moves(w, q) => w = v

(* The engines of a version have a design, but those to be designed again. *)
Covered(v, redesign) == broken \/ EnginesOf(v) \subseteq redesign \cup DesignedOn(v)

(* A run at rest: it waits for its designs, or has them, or left the       *)
(* assignment as it was.                                                   *)
Saved(run) ==
    /\ run.version = 0 => run = NoRun
    /\ run.version <= Effective
    /\ run.status # "routing"
    /\ run.status # "rolled_back" => Traced(run)
    /\ run.status = "awaiting_redesign" =>
          /\ run.start <= run.previous
          /\ SamePicks(run.previous, run.version)
          /\ Covered(run.version, run.redesign)
    /\ run.status = "complete" /\ run.version # 0 => Covered(run.version, {})
    /\ run.status = "rolled_back" =>
          /\ run.previous \in Versions /\ run.previous < run.version
          /\ asg[run.version].source = "post_schema_routing"
          /\ AsBefore(run)

(* The assignment of the next reroute of a run, from its draft on: it      *)
(* moves what no version of the run has moved, and nobody picked.          *)
Follows(run, a) ==
    /\ a.prev = run.version
    /\ a.pinned = asg[run.version].pinned
    /\ Together(a.owner)
    /\ \A q \in Queries : a.owner[q] # asg[run.version].owner[q] =>
          /\ q \in run.routed /\ q \notin a.pinned
          /\ \A v \in Rerouted(run) : ~Moves(v, q)

(* What a routing under way has found and done.                            *)
Underway(f) ==
    /\ f.pc # "save" => Traced(f.run) /\ f.run.status # "rolled_back"
    /\ f.pc \in {"pass", "write"} => f.run.version = Effective
    /\ f.pc \in {"pass", "write", "carry", "redesign"} => Covered(f.run.version, {})
    /\ f.pc = "write" => Follows(f.run, f.draft)
    /\ f.pc \in {"carry", "redesign"} =>
          f.run.version + 1 = f.new /\ ext.version < f.new /\ Follows(f.run, asg[f.new])
    /\ f.pc = "redesign" =>
          f.run.redesign \subseteq EnginesOf(f.new) /\ Covered(f.new, f.run.redesign)
    /\ f.pc \in {"carry", "redesign", "rollback"} =>
          f.new = Effective /\ SamePicks(f.run.version, f.new)
    /\ f.pc \in {"rollback", "restate"} => ext.version <= f.new
    /\ f.pc \in {"carry", "redesign", "rollback", "restate"} =>
          f.designed = DesignedOn(f.run.version)
    /\ f.pc = "restate" =>
          /\ f.new + 1 = Effective
          /\ asg[Effective].source = "post_schema_routing"
          /\ asg[Effective].owner = asg[f.run.version].owner
          /\ asg[Effective].pinned = asg[f.run.version].pinned
    /\ f.pc = "save" => Saved(f.run)

AtRest(f) ==
    /\ Saved(f.run)
    /\ f.pc = "returned" => f.run.status = "complete" /\ f.run.version # 0
    /\ f.pc = "raised" => f.run.status = "rolled_back"
    /\ f.pc = "idle" => f.run = NoRun

RoutingInv ==
    \A p \in RouterProcs : IF RouterRests(p) THEN AtRest(router[p]) ELSE Underway(router[p])

(* But for the revisions, a design is under a version that exists, for the *)
(* queries which that version gives its engine.                            *)
DesignInv ==
    \A e \in Engines : \A v \in DOMAIN designs[e] :
       ~designs[e][v].revised => v \in Versions /\ designs[e][v].scope = Scope(v, e)

ChoiceInv == Stands(Effective) /\ \A v \in Versions : Together(asg[v].owner)

SequentialInv == RoutingInv /\ Saved(ext) /\ DesignInv /\ ChoiceInv

-----------------------------------------------------------------------------
(***************************************************************************)
(* What stays when others write                                            *)
(***************************************************************************)

(* No version is written again.                                            *)
Appends ==
    /\ StoreTyped' /\ Versions \subseteq Versions' /\ Effective <= Effective'
    /\ \A v \in Versions : asg'[v] = asg[v]

(* The designs under the versions before n are as they were, and so are    *)
(* those of n that there were.                                             *)
KeepsTo(n) ==
    \A e \in Engines : \A v \in Version :
       /\ v <= n /\ v \in DOMAIN designs[e] => designs'[e][v] = designs[e][v]
       /\ v < n /\ v \in DOMAIN designs'[e] => v \in DOMAIN designs[e]

LEMMA AppendsSame ==
  ASSUME Typed, asg' = asg, StoreTyped'
  PROVE  Appends /\ Versions' = Versions /\ Effective' = Effective
  BY VersionsAre DEF Typed, Appends, Versions, Effective

(* The versions a run has written, and what they moved.                    *)
LEMMA RerouteStays ==
  ASSUME Typed, Appends, NEW run \in Run, Traced(run)
  PROVE  /\ Rerouted(run)' = Rerouted(run)
         /\ \A v \in Rerouted(run), q \in Queries : Moves(v, q)' <=> Moves(v, q)
<1>1. /\ Versions = 1 .. Effective /\ Versions' = 1 .. Effective' /\ Effective \in Nat
      /\ Effective' \in Nat /\ Effective <= Effective'
  BY VersionsAre DEF Typed, Appends, StoreTyped, LineageWellFormed
<1>2. run.version \in Nat /\ run.start \in Nat /\ run.version <= Effective
      /\ (run.version # 0 => run.start # 0) /\ run.start <= run.version
  BY DEF Run, Traced
<1>3. Rerouted(run)' = Rerouted(run)
  BY <1>1, <1>2 DEF Rerouted
<1>4. \A v \in Rerouted(run) : v \in Versions /\ asg[v].prev \in Versions
  BY <1>1, <1>2 DEF Rerouted, Typed, StoreTyped
<1>5. \A v \in Rerouted(run) : asg'[v] = asg[v] /\ asg'[asg[v].prev] = asg[asg[v].prev]
  BY <1>4 DEF Appends
<1>6. ASSUME NEW v \in Rerouted(run), NEW q \in Queries PROVE Moves(v, q)' <=> Moves(v, q)
  BY <1>5 DEF Moves
<1> QED
  BY <1>3, <1>6

LEMMA TraceStays ==
  ASSUME Typed, Appends, NEW run \in Run, Traced(run)
  PROVE  Traced(run)'
<1>1. Effective \in Nat /\ Effective' \in Nat /\ Effective <= Effective'
  BY VersionsAre DEF Typed, Appends, StoreTyped, LineageWellFormed
<1>2. run.version <= Effective'
  BY <1>1 DEF Traced, Run
<1>3. \A q \in Queries : \A v \in Rerouted(run)' : Moves(v, q)' =>
          q \in run.routed /\ \A w \in Rerouted(run)' : Moves(w, q)' => w = v
  BY RerouteStays DEF Traced
<1> QED
  BY <1>2, <1>3 DEF Traced

LEMMA CoverStays ==
  ASSUME Typed, Appends, Grow, broken => broken', NEW v \in Versions, NEW es, Covered(v, es)
  PROVE  Covered(v, es)'
<1>1. EnginesOf(v)' = EnginesOf(v)
  BY DEF Appends, EnginesOf
<1>2. DesignedOn(v) \subseteq DesignedOn(v)'
  BY DEF Grow, DesignedOn
<1> QED
  BY <1>1, <1>2 DEF Covered

LEMMA SavedStays ==
  ASSUME Typed, Appends, Grow, broken => broken', NEW run, RunTyped(run), Saved(run),
         run.status = "rolled_back" => KeepsTo(run.version)
  PROVE  Saved(run)'
<1>1. run \in Run /\ Effective \in Nat /\ Effective' \in Nat /\ Effective <= Effective'
  BY VersionsAre DEF RunTyped, Typed, Appends, StoreTyped, LineageWellFormed
<1>2. run.version <= Effective'
  BY <1>1 DEF Saved, Run
<1>3. run.status # "rolled_back" => Traced(run)'
  BY <1>1, TraceStays DEF Saved
<1>4. ASSUME run.status = "awaiting_redesign"
      PROVE  SamePicks(run.previous, run.version)' /\ Covered(run.version, run.redesign)'
  <2>1. run.previous \in Versions /\ run.version \in Versions
    BY <1>4 DEF RunTyped
  <2>2. asg'[run.previous] = asg[run.previous] /\ asg'[run.version] = asg[run.version]
    BY <2>1 DEF Appends
  <2>3. SamePicks(run.previous, run.version)'
    BY <1>4, <2>2 DEF Saved, SamePicks
  <2> QED
    BY <1>4, <2>1, <2>3, CoverStays DEF Saved
<1>5. ASSUME run.status = "complete", run.version # 0 PROVE Covered(run.version, {})'
  BY <1>5, CoverStays DEF RunTyped, Saved
<1>6. ASSUME run.status = "rolled_back"
      PROVE  /\ run.previous \in Versions' /\ asg'[run.version].source = "post_schema_routing"
             /\ AsBefore(run)'
  <2>1. /\ run.previous \in Versions /\ run.version \in Versions /\ run.previous < run.version
        /\ run.version \in Version /\ run.previous \in Version /\ AsBefore(run)
    BY <1>1, <1>6, VersionsAre DEF RunTyped, Saved, Run, Typed, Version
  <2>2. /\ asg'[run.previous] = asg[run.previous] /\ asg'[run.version] = asg[run.version]
        /\ run.previous \in Versions'
    BY <2>1 DEF Appends
  <2>3. run.previous <= run.version /\ run.version <= run.version
    BY <2>1 DEF Version
  <2>4. ASSUME NEW e \in DesignedOn(run.previous)', designs'[e][run.previous].fit
        PROVE  e \in DesignedOn(run.version)' /\ designs'[e][run.version] = designs'[e][run.previous]
    <3>1. e \in Engines /\ run.previous \in DOMAIN designs'[e]
      BY DEF DesignedOn
    <3>2. run.previous \in DOMAIN designs[e]
      BY <1>6, <2>1, <3>1 DEF KeepsTo
    <3>3. designs'[e][run.previous] = designs[e][run.previous]
      BY <1>6, <2>1, <2>3, <3>1, <3>2 DEF KeepsTo
    <3>4. e \in DesignedOn(run.version) /\ designs[e][run.version] = designs[e][run.previous]
      BY <2>1, <2>4, <3>1, <3>2, <3>3 DEF AsBefore, DesignedOn
    <3>5. run.version \in DOMAIN designs[e] /\ run.version \in DOMAIN designs'[e]
      BY <3>1, <3>4 DEF DesignedOn, Grow
    <3>6. designs'[e][run.version] = designs[e][run.version]
      BY <1>6, <2>1, <2>3, <3>1, <3>5 DEF KeepsTo
    <3> QED
      BY <3>1, <3>3, <3>4, <3>5, <3>6 DEF DesignedOn
  <2> QED
    BY <1>6, <2>1, <2>2, <2>4 DEF AsBefore, Saved
<1> QED
  BY <1>2, <1>3, <1>4, <1>5, <1>6 DEF Saved

LEMMA ExtSaved ==
  ASSUME Typed, Appends, Grow, broken => broken', ext' = ext, Saved(ext),
         ext.status = "rolled_back" => KeepsTo(ext.version)
  PROVE  Saved(ext)'
<1>1. PICK run : run = ext
  OBVIOUS
<1>2. Saved(run) /\ RunTyped(run)
  BY <1>1 DEF Typed, RoutersTyped
<1>3. Saved(run)'
  BY <1>1, <1>2, SavedStays
<1> QED
  BY <1>1, <1>3

FrameHolds(f) == IF f.pc \in {"idle", "returned", "raised"} THEN AtRest(f) ELSE Underway(f)

(* The routing there is, at its next step.                                 *)
LEMMA RoutingOf ==
  ASSUME Typed, OneRouter, NEW self \in RouterProcs, NEW f, router' = [router EXCEPT ![self] = f],
         FrameHolds(f)'
  PROVE  RoutingInv'
<1>1. router'[self] = f
  BY DEF Typed, RoutersTyped
<1>2. FrameHolds(router[self])'
  BY <1>1
<1>3. ASSUME NEW p \in RouterProcs PROVE FrameHolds(router[p])'
  <2>1. p = self
    BY DEF OneRouter
  <2> QED
    BY <1>2, <2>1
<1> QED
  BY <1>3 DEF RoutingInv, FrameHolds, RouterRests

LEMMA FrameNow ==
  ASSUME Typed, RoutingInv, NEW self \in RouterProcs
  PROVE  FrameTyped(router[self]) /\ FrameHolds(router[self]) /\ router[self] \in RouterFrame
  BY DEF Typed, RoutersTyped, RoutingInv, FrameHolds, RouterRests

(* Designs are written under one version.                                  *)
WritesAt(n) ==
    \A e \in Engines :
       /\ DOMAIN designs'[e] \subseteq DOMAIN designs[e] \cup {n}
       /\ \A v \in DOMAIN designs[e] \ {n} : designs'[e][v] = designs[e][v]

LEMMA DesignsStay ==
  ASSUME Typed, designs' = designs, NEW n
  PROVE  Grow /\ KeepsTo(n)
  BY DEF Typed, DesignsTyped, Grow, KeepsTo

LEMMA KeepsBelow ==
  ASSUME NEW n \in Nat, NEW m \in Nat, m < n, WritesAt(n), Grow
  PROVE  KeepsTo(m)
<1> SUFFICES ASSUME NEW e \in Engines, NEW v \in Version, v <= m
             PROVE  /\ v \in DOMAIN designs[e] => designs'[e][v] = designs[e][v]
                    /\ v \in DOMAIN designs'[e] => v \in DOMAIN designs[e]
  BY DEF KeepsTo, Version
<1>1. v # n
  BY DEF Version
<1> QED
  BY <1>1 DEF WritesAt

(* With a version more, or none, the designs are of theirs still.          *)
LEMMA DesignsOfVersions ==
  ASSUME Typed, Appends, DesignInv, UNCHANGED designVars
  PROVE  DesignInv'
<1> SUFFICES ASSUME NEW e \in Engines, NEW v \in DOMAIN designs'[e], ~designs'[e][v].revised
             PROVE  v \in Versions' /\ designs'[e][v].scope = Scope(v, e)'
  BY DEF DesignInv
<1>1. designs' = designs /\ v \in Versions /\ designs[e][v].scope = Scope(v, e)
  BY DEF DesignInv, designVars
<1>2. v \in Versions' /\ Scope(v, e)' = Scope(v, e)
  BY <1>1 DEF Scope, Appends
<1> QED
  BY <1>1, <1>2

(* So they are with designs written under one, for the queries it gives    *)
(* their engine, or revised.                                               *)
LEMMA DesignsWritten ==
  ASSUME asg' = asg, DesignInv, NEW n, WritesAt(n),
         \A e \in Engines : n \in DOMAIN designs'[e] /\ ~designs'[e][n].revised =>
            n \in Versions /\ designs'[e][n].scope = Scope(n, e)
  PROVE  DesignInv'
<1> SUFFICES ASSUME NEW e \in Engines, NEW v \in DOMAIN designs'[e], ~designs'[e][v].revised
             PROVE  v \in Versions' /\ designs'[e][v].scope = Scope(v, e)'
  BY DEF DesignInv
<1>1. Versions' = Versions /\ Scope(v, e)' = Scope(v, e)
  BY DEF Versions, Scope
<1>2. CASE v = n
  BY <1>1, <1>2
<1>3. CASE v # n
  <2>1. v \in DOMAIN designs[e] /\ designs'[e][v] = designs[e][v]
    BY <1>3 DEF WritesAt
  <2> QED
    BY <1>1, <2>1 DEF DesignInv
<1> QED
  BY <1>2, <1>3

(* The customer's picks and the writes of a table, with no version more.   *)
LEMMA ChoiceStays ==
  ASSUME ChoiceInv, asg' = asg, chosen' = chosen
  PROVE  ChoiceInv'
  BY DEF ChoiceInv, Stands, Together, Versions, Effective

(* A step of a routing that writes nothing.                                *)
LEMMA NothingWritten ==
  ASSUME Typed, Typed', SequentialInv, UNCHANGED <<asg, chosen, designVars>>,
         broken => broken'
  PROVE  /\ Appends /\ Grow /\ \A n : KeepsTo(n)
         /\ Versions' = Versions /\ Effective' = Effective
         /\ DesignInv' /\ ChoiceInv' /\ (ext' = ext => Saved(ext)')
<1>1. Appends /\ Versions' = Versions /\ Effective' = Effective
  BY AppendsSame DEF Typed
<1>2. Grow /\ \A n : KeepsTo(n)
  BY DesignsStay DEF designVars
<1>3. DesignInv'
  BY <1>1, DesignsOfVersions DEF SequentialInv
<1>4. ChoiceInv'
  BY ChoiceStays DEF SequentialInv
<1>5. ext' = ext => Saved(ext)'
  BY <1>1, <1>2, ExtSaved DEF SequentialInv
<1> QED
  BY <1>1, <1>2, <1>3, <1>4, <1>5

(* A finite set with at most one element.                                  *)
LEMMA AtMostOne ==
  ASSUME NEW S, IsFiniteSet(S)
  PROVE  Cardinality(S) <= 1 <=> \A x, y \in S : x = y
<1>1. Cardinality(S) \in Nat
  BY FS_CardinalityType
<1>2. ASSUME \A x, y \in S : x = y PROVE Cardinality(S) <= 1
  <2>1. CASE S = {}
    BY <2>1, FS_EmptySet
  <2>2. CASE S # {}
    <3>1. PICK x : S = {x}
      BY <1>2, <2>2
    <3> QED
      BY <3>1, FS_Singleton
  <2> QED
    BY <2>1, <2>2
<1>3. ASSUME NEW x \in S, NEW y \in S, x # y PROVE ~(Cardinality(S) <= 1)
  <2>1. IsFiniteSet({x}) /\ Cardinality({x}) = 1
    BY FS_Singleton
  <2>2. Cardinality({x} \cup {y}) = 2
    BY <1>3, <2>1, FS_AddElement
  <2>3. {x} \cup {y} \in SUBSET S
    OBVIOUS
  <2>4. Cardinality({x} \cup {y}) <= Cardinality(S)
    BY <2>3, FS_Subset
  <2> QED
    BY <1>1, <2>2, <2>4
<1> QED
  BY <1>2, <1>3

(* A table whose writes are on one engine.                                 *)
LEMMA TogetherIs ==
  ASSUME NEW owner \in [Queries -> Engines]
  PROVE  Together(owner) <=> ~Split(owner)
<1> DEFINE S == {owner[q] : q \in WriteGroup}
<1>1. S \in SUBSET Engines /\ \A q \in WriteGroup : owner[q] \in S
  BY AssignmentAssumption
<1>2. IsFiniteSet(S)
  BY <1>1, FlowAssumption, FS_Subset
<1>3. Cardinality(S) \in Nat /\ (Cardinality(S) <= 1 <=> \A x, y \in S : x = y)
  BY <1>2, AtMostOne, FS_CardinalityType
<1>4. (\A x, y \in S : x = y) <=> Together(owner)
  BY <1>1 DEF Together
<1> QED
  BY <1>3, <1>4 DEF Split

LEMMA NoRunSaved == Typed => Saved(NoRun)
<1> SUFFICES ASSUME Typed PROVE Saved(NoRun)
  OBVIOUS
<1>1. /\ NoRun.version = 0 /\ NoRun.start = 0 /\ NoRun.depth = 0 /\ NoRun.routed = {}
      /\ NoRun.status = "complete"
  BY DEF NoRun
<1>2. Rerouted(NoRun) = {} /\ Effective \in Nat
  BY <1>1, VersionsAre DEF Rerouted, Typed
<1>3. Traced(NoRun)
  BY <1>1, <1>2 DEF Traced, MaxDepth
<1> QED
  BY <1>1, <1>2, <1>3 DEF Saved

LEMMA IdleRests == Typed => AtRest(RouterIdle)
<1>1. RouterIdle.pc = "idle" /\ RouterIdle.run = NoRun
  BY DEF RouterIdle
<1> QED
  BY <1>1, NoRunSaved DEF AtRest

LEMMA IdleRestsNext == Typed' => AtRest(RouterIdle)'
  BY IdleRests, PTL

LEMMA InitSequential == Init => SequentialInv
<1> SUFFICES ASSUME Init PROVE SequentialInv
  OBVIOUS
<1>1. Typed
  BY InitTyped
<1>2. PICK owner \in [Queries -> Engines] :
         /\ ~Split(owner)
         /\ asg = [v \in {1} |-> [source |-> "resolved", prev |-> 0, owner |-> owner, pinned |-> {}]]
  BY DEF Init
<1>3. Versions = {1} /\ asg[1].owner = owner /\ Effective \in Nat
  BY <1>1, <1>2, VersionsAre DEF Versions, Typed
<1>4. PICK saved \in SUBSET EnginesOf(1) :
         designs = [e \in Engines |->
             IF e \in saved THEN [v \in {1} |-> [scope |-> Scope(1, e), fit |-> FALSE,
                                            revised |-> FALSE]]
             ELSE <<>>]
  BY DEF Init
<1>5. ext = NoRun /\ router = [p \in RouterProcs |-> RouterIdle]
      /\ chosen = [q \in Queries |-> NoEngine]
  BY DEF Init, NothingChosen
<1>6. Saved(NoRun)
  BY <1>1, NoRunSaved
<1>7. RoutingInv
  <2>1. RouterIdle.pc = "idle"
    BY DEF RouterIdle
  <2> QED
    BY <1>1, <1>5, <2>1, IdleRests DEF RoutingInv, RouterRests
<1>8. \A e \in Engines : /\ DOMAIN designs[e] \subseteq {1}
                         /\ 1 \in DOMAIN designs[e] => designs[e][1].scope = Scope(1, e)
  <2> SUFFICES ASSUME NEW e \in Engines
               PROVE  /\ DOMAIN designs[e] \subseteq {1}
                      /\ 1 \in DOMAIN designs[e] => designs[e][1].scope = Scope(1, e)
    OBVIOUS
  <2>1. CASE e \in saved
    BY <1>4, <2>1
  <2>2. CASE e \notin saved
    <3>1. designs[e] = <<>> /\ DOMAIN <<>> = {}
      BY <1>4, <2>2
    <3> QED
      BY <3>1
  <2> QED
    BY <2>1, <2>2
<1>9. DesignInv
  BY <1>3, <1>8 DEF DesignInv
<1>10. ChoiceInv
  BY <1>2, <1>3, <1>5, TogetherIs DEF ChoiceInv, Stands
<1> QED
  BY <1>5, <1>6, <1>7, <1>9, <1>10 DEF SequentialInv

(* What is underway where nothing was written.                             *)
LEMMA UnderwaySame ==
  ASSUME NEW f, UNCHANGED <<asg, designVars, ext, broken>>, Underway(f)
  PROVE  Underway(f)'
<1>1. asg' = asg /\ designs' = designs /\ ext' = ext /\ broken' = broken
  BY DEF designVars
<1>2. Traced(f.run)' <=> Traced(f.run)
  BY <1>1 DEF Traced, Rerouted, Moves, Versions, Effective
<1>3. Saved(f.run)' <=> Saved(f.run)
  BY <1>1, <1>2 DEF Saved, Covered, SamePicks, AsBefore, EnginesOf, DesignedOn, Versions, Effective
<1>4. Effective' = Effective /\ DesignedOn(f.run.version)' = DesignedOn(f.run.version)
  BY <1>1 DEF Effective, Versions, DesignedOn
<1>5. \A v, es : Covered(v, es)' <=> Covered(v, es)
  BY <1>1 DEF Covered, EnginesOf, DesignedOn
<1>6. \A a : Follows(f.run, a)' <=> Follows(f.run, a)
  BY <1>1 DEF Follows, Rerouted, Moves, Versions
<1>7. SamePicks(f.run.version, f.new)' <=> SamePicks(f.run.version, f.new)
  BY <1>1 DEF SamePicks
<1>8. EnginesOf(f.new)' = EnginesOf(f.new)
  BY <1>1 DEF EnginesOf
<1> QED
  BY <1>1, <1>2, <1>3, <1>4, <1>5, <1>6, <1>7, <1>8 DEF Underway

(* A run that starts moved nothing.                                        *)
LEMMA StartTraced ==
  ASSUME Typed
  PROVE  Traced(StartRun(Effective))
<1>1. Effective \in 1 .. MaxVersion
  BY VersionsAre DEF Typed
<1>2. PICK run : run = StartRun(Effective)
  OBVIOUS
<1>3. run.start = Effective /\ run.version = Effective /\ run.depth = 0 /\ run.routed = {}
  BY <1>2 DEF StartRun
<1>4. Rerouted(run) = {}
  BY <1>1, <1>3, VersionsAre DEF Rerouted, Typed
<1>5. Traced(run)
  BY <1>1, <1>3, <1>4 DEF Traced, MaxDepth
<1> QED
  BY <1>2, <1>5

(* A run as it was some reroutes ago.                                      *)
LEMMA TraceShorter ==
  ASSUME Typed, NEW run \in Run, Traced(run), NEW r \in Run, r.start = run.start,
         r.depth = run.depth, r.routed = run.routed, run.start <= r.version,
         r.version <= run.version
  PROVE  Traced(r)
<1>1. /\ run.start \in Nat /\ run.version \in Nat /\ run.depth \in Nat /\ r.version \in Nat
      /\ Effective \in Nat
  BY VersionsAre DEF Run, Typed
<1>2. Rerouted(r) \subseteq Rerouted(run)
  BY <1>1, VersionsAre DEF Rerouted, Typed
<1>3. r.version <= r.start + r.depth /\ r.version <= Effective /\ (r.version # 0 => r.start # 0)
  BY <1>1 DEF Traced
<1> QED
  BY <1>2, <1>3 DEF Traced

LEMMA BeginsSequential ==
  ASSUME Typed, Typed', OneRouter, SequentialInv, NEW self \in RouterProcs,
         StartRouting(self) \/ ExternalStep(self, broken) \/ RollBackExternal(self),
         broken' = broken
  PROVE  SequentialInv'
<1>1. UNCHANGED <<asg, chosen, designVars, ext, broken>> /\ UNCHANGED <<asg, designVars, ext, broken>>
  BY DEF StartRouting, ExternalStep, RollBackExternal
<1>2. DesignInv' /\ ChoiceInv' /\ Saved(ext)'
  BY <1>1, NothingWritten
<1>3. Effective \in Versions /\ Effective # 0 /\ Effective \in Nat
  BY VersionsAre DEF Typed
<1>4. ASSUME NEW run, Traced(run), run.status # "rolled_back", run.version = Effective,
             Covered(run.version, {}),
             NEW f, f.pc = "pass", f.run = run, router' = [router EXCEPT ![self] = f]
      PROVE  SequentialInv'
  <2>1. Underway(f)
    BY <1>4 DEF Underway
  <2>2. FrameHolds(f)'
    BY <1>1, <1>4, <2>1, UnderwaySame DEF FrameHolds
  <2> QED
    BY <1>2, <1>4, <2>2, RoutingOf DEF SequentialInv
<1>5. PICK start : start = StartRun(Effective)
  OBVIOUS
<1>6. Traced(start) /\ start.status = "routing" /\ start.version = Effective
  BY <1>5, StartTraced DEF StartRun
<1>7. CASE StartRouting(self)
  <2>1. PICK f : f = [RouterIdle EXCEPT !.pc = "pass", !.run = start]
    OBVIOUS
  <2>2. f.pc = "pass" /\ f.run = start
    BY <2>1 DEF RouterIdle
  <2>3. Covered(Effective, {})
    BY <1>7 DEF StartRouting, AllDesigned, Covered
  <2> QED
    BY <1>4, <1>5, <1>6, <1>7, <2>1, <2>2, <2>3 DEF StartRouting
<1>8. CASE ExternalStep(self, broken)
  <2>1. PICK run : run = RunToContinue
    OBVIOUS
  <2>2. PICK f : f = [RouterIdle EXCEPT !.pc = "pass", !.external = TRUE, !.run = run]
    OBVIOUS
  <2>3. f.pc = "pass" /\ f.run = run
    BY <2>2 DEF RouterIdle
  <2>4. /\ router' = [router EXCEPT ![self] = f] /\ run.status # "rolled_back"
        /\ run.status = "routing" => AllDesigned(Effective) \/ broken
        /\ run.status = "awaiting_redesign" => MissingDesigns(run) = {}
    BY <1>8, <2>1, <2>2 DEF ExternalStep
  <2>5. CASE run = start
    <3>1. Covered(run.version, {})
      BY <1>6, <2>4, <2>5 DEF Covered, AllDesigned
    <3> QED
      BY <1>4, <1>6, <2>3, <2>4, <2>5, <3>1
  <2>6. CASE run # start
    <3>1. run = ext /\ ext.version = Effective
      BY <1>5, <2>1, <2>6 DEF RunToContinue
    <3>2. Saved(run) /\ run.status \in {"routing", "awaiting_redesign", "complete", "rolled_back"}
      BY <3>1 DEF SequentialInv, Typed, RoutersTyped, RunTyped, Run
    <3>3. Traced(run)
      BY <2>4, <3>2 DEF Saved
    <3>4. Covered(run.version, {})
      <4>1. CASE run.status = "awaiting_redesign"
        <5>1. run.redesign \subseteq DesignedOn(run.version) /\ Covered(run.version, run.redesign)
          BY <2>4, <3>2, <4>1 DEF MissingDesigns, Saved
        <5> QED
          BY <5>1 DEF Covered
      <4>2. CASE run.status = "complete"
        BY <1>3, <3>1, <3>2, <4>2 DEF Saved
      <4>3. run.status # "routing"
        BY <3>2 DEF Saved
      <4> QED
        BY <2>4, <3>2, <4>1, <4>2, <4>3
    <3> QED
      BY <1>4, <2>3, <2>4, <3>1, <3>3, <3>4
  <2> QED
    BY <2>5, <2>6
<1>9. CASE RollBackExternal(self)
  <2>1. ext.status = "awaiting_redesign" /\ Effective = ext.version
    BY <1>9 DEF RollBackExternal, MayRollBack
  <2>2. PICK r : r = [ext EXCEPT !.version = ext.previous]
    OBVIOUS
  <2>3. PICK f : f = [RouterIdle EXCEPT !.pc = "rollback", !.external = TRUE, !.run = r,
                         !.new = ext.version, !.designed = DesignedOn(ext.previous)]
    OBVIOUS
  <2>4. /\ ext \in Run /\ ext.version \in Versions /\ ext.previous \in Versions
        /\ ext.previous < ext.version /\ Saved(ext)
    BY <2>1 DEF SequentialInv, Typed, RoutersTyped, RunTyped
  <2>5. /\ r \in Run /\ r.version = ext.previous /\ r.start = ext.start /\ r.depth = ext.depth
        /\ r.routed = ext.routed /\ r.status = ext.status
    BY <2>2, <2>4 DEF Run
  <2>6. f.pc = "rollback" /\ f.run = r /\ f.new = ext.version /\ f.designed = DesignedOn(ext.previous)
    BY <2>3 DEF RouterIdle
  <2>7. Traced(ext) /\ ext.start <= ext.previous /\ SamePicks(ext.previous, ext.version)
    BY <2>1, <2>4 DEF Saved
  <2>8. r.version <= ext.version
    BY <2>4, <2>5 DEF Run
  <2>9. Traced(r)
    BY <2>4, <2>5, <2>7, <2>8, TraceShorter
  <2>10. ext.version <= f.new
    BY <1>3, <2>1, <2>6
  <2>11. Underway(f)
    BY <2>1, <2>5, <2>6, <2>7, <2>9, <2>10 DEF Underway
  <2>12. FrameHolds(f)'
    BY <1>1, <2>6, <2>11, UnderwaySame DEF FrameHolds
  <2>13. router' = [router EXCEPT ![self] = f]
    BY <1>9, <2>2, <2>3 DEF RollBackExternal
  <2> QED
    BY <1>2, <2>12, <2>13, RoutingOf DEF SequentialInv
<1> QED
  BY <1>7, <1>8, <1>9

LEMMA SavedSame ==
  ASSUME NEW run, UNCHANGED <<asg, designVars, broken>>, Saved(run)
  PROVE  Saved(run)'
<1>1. asg' = asg /\ designs' = designs /\ broken' = broken
  BY DEF designVars
<1>2. Traced(run)' <=> Traced(run)
  BY <1>1 DEF Traced, Rerouted, Moves, Versions, Effective
<1> QED
  BY <1>1, <1>2 DEF Saved, Covered, SamePicks, AsBefore, EnginesOf, DesignedOn, Versions, Effective

(* The writes of a table move together, those a customer picked not at     *)
(* all, and those that moved before not again.                             *)
LEMMA UnitsMove ==
  ASSUME Typed, NEW run \in Run, run.version \in Versions, Traced(run),
         Together(asg[run.version].owner), NEW to \in Placements(run)
  PROVE  /\ \A u \in DOMAIN to : u = WriteGroup \/ u \cap WriteGroup = {}
         /\ \A m \in MovedBy(to) : m \notin run.routed /\ m \notin asg[run.version].pinned
<1>1. \A u \in DOMAIN to : \E q \in MayBeFlagged(run) : ~Held(run, q) /\ u = MembersOf(run, q)
  BY PlacementIs DEF Typed
<1>2. ASSUME NEW u \in DOMAIN to, NEW w \in u, w \in WriteGroup PROVE u = WriteGroup
  <2>1. PICK q \in MayBeFlagged(run) : ~Held(run, q) /\ u = MembersOf(run, q)
    BY <1>1
  <2>2. q \in WriteGroup /\ UnitOf(q) = WriteGroup
    BY <1>2, <2>1 DEF MembersOf, UnitOf
  <2>3. q \notin run.routed
    BY <2>1 DEF MayBeFlagged
  <2>4. WriteGroup \cap run.routed = {} /\ WriteGroup \cap asg[run.version].pinned = {}
    BY <2>1, <2>2, <2>3 DEF Traced, Held
  <2>5. \A m \in WriteGroup : asg[run.version].owner[m] = asg[run.version].owner[q]
    BY <2>2 DEF Together
  <2> QED
    BY <2>1, <2>2, <2>4, <2>5 DEF MembersOf
<1>3. ASSUME NEW m \in MovedBy(to) PROVE m \notin run.routed /\ m \notin asg[run.version].pinned
  BY <1>1 DEF MovedBy, MembersOf
<1> QED
  BY <1>2, <1>3

(* The next reroute of a run follows it.                                   *)
LEMMA RoutedFollows ==
  ASSUME Typed, NEW run \in Run, run.version \in Versions, Traced(run),
         Together(asg[run.version].owner), NEW to \in Placements(run),
         NEW r, r = [run EXCEPT !.routed = Remember(run, to)]
  PROVE  Traced(r) /\ Follows(r, RoutedDraft(run, to))
<1>1. PICK a : a = RoutedDraft(run, to)
  OBVIOUS
<1>2. PICK routed : routed = run.routed \cup MovedBy(to)
  OBVIOUS
<1>3. /\ r.version = run.version /\ r.start = run.start /\ r.depth = run.depth
      /\ r.routed = routed
  BY <1>2 DEF Run, Remember
<1>4. Rerouted(r) = Rerouted(run)
  BY <1>3 DEF Rerouted
<1>5. Together(a.owner) /\ (WriteGroup \subseteq routed \/ WriteGroup \cap routed = {})
  <2>1. CASE WriteGroup \in DOMAIN to
    <3>1. ASSUME NEW q \in WriteGroup
          PROVE  q \in MovedBy(to) /\ (CHOOSE u \in DOMAIN to : q \in u) = WriteGroup
      <4>1. q \in MovedBy(to)
        BY <2>1 DEF MovedBy
      <4>2. PICK c : c = CHOOSE u \in DOMAIN to : q \in u
        OBVIOUS
      <4>3. c \in DOMAIN to /\ q \in c
        BY <2>1, <4>2
      <4>4. c = WriteGroup
        BY <4>3, UnitsMove
      <4> QED
        BY <4>1, <4>2, <4>4
    <3>2. \A q \in WriteGroup : a.owner[q] = to[WriteGroup]
      BY <1>1, <3>1, AssignmentAssumption DEF RoutedDraft
    <3> QED
      BY <1>2, <3>1, <3>2 DEF Together
  <2>2. CASE WriteGroup \notin DOMAIN to
    <3>1. WriteGroup \cap MovedBy(to) = {}
      BY <2>2, UnitsMove DEF MovedBy
    <3>2. \A q \in WriteGroup : a.owner[q] = asg[run.version].owner[q]
      BY <1>1, <3>1, AssignmentAssumption DEF RoutedDraft
    <3> QED
      BY <1>2, <3>1, <3>2 DEF Together, Traced
  <2> QED
    BY <2>1, <2>2
<1>6. \A q \in Queries : a.owner[q] # asg[run.version].owner[q] => q \in MovedBy(to)
  BY <1>1 DEF RoutedDraft
<1>7. a.prev = run.version /\ a.pinned = asg[run.version].pinned
  BY <1>1 DEF RoutedDraft
<1>8. \A q \in MovedBy(to) : q \in routed /\ q \notin run.routed /\ q \notin a.pinned
  BY <1>2, <1>7, UnitsMove
<1>9. \A q \in Queries : q \in MovedBy(to) => \A v \in Rerouted(run) : ~Moves(v, q)
  BY <1>8 DEF Traced
<1>10. Follows(r, a)
  BY <1>3, <1>4, <1>5, <1>6, <1>7, <1>8, <1>9 DEF Follows
<1>11. Traced(r)
  BY <1>2, <1>3, <1>4, <1>5 DEF Traced
<1> QED
  BY <1>1, <1>10, <1>11

LEMMA PassSequential ==
  ASSUME Typed, Typed', OneRouter, SequentialInv, NEW self \in RouterProcs, Pass(self),
         broken' = broken
  PROVE  SequentialInv'
<1>1. /\ UNCHANGED <<asg, chosen, designVars, ext, broken>> /\ UNCHANGED <<asg, designVars, ext, broken>>
      /\ UNCHANGED <<asg, designVars, broken>> /\ router[self].pc = "pass"
  BY DEF Pass, AtRouter
<1>2. DesignInv' /\ ChoiceInv' /\ Saved(ext)'
  BY <1>1, NothingWritten
<1>3. PICK g : g = router[self]
  OBVIOUS
<1>4. /\ g \in RouterFrame /\ g.pc = "pass" /\ g.run \in Run /\ g.run.version \in Versions
      /\ Underway(g)
  BY <1>1, <1>3, FrameNow DEF SequentialInv, FrameHolds, FrameTyped, RouterFrame
<1>5. PICK run : run = [g.run EXCEPT !.kept = KeptNow(g.run)]
  OBVIOUS
<1>6. /\ run \in Run /\ run.version = g.run.version /\ run.start = g.run.start
      /\ run.depth = g.run.depth /\ run.routed = g.run.routed /\ run.status = g.run.status
  BY <1>4, <1>5 DEF KeptNow, Run
<1>7. /\ run.status # "rolled_back" /\ run.version = Effective
      /\ Covered(run.version, {}) /\ run.version \in Versions /\ run.version # 0
  BY <1>4, <1>6, VersionsAre DEF Underway, Typed
<1>8. Traced(run)
  <2>1. Traced(g.run) /\ g.run.start <= run.version /\ run.version <= g.run.version
    BY <1>4, <1>6 DEF Underway, Traced, Run
  <2> QED
    BY <1>4, <1>6, <2>1, TraceShorter
<1>9. ASSUME NEW to \in Placements(run),
             router' = [router EXCEPT ![self] =
                          [@ EXCEPT !.pc = "write", !.draft = RoutedDraft(run, to),
                                    !.run = [run EXCEPT !.routed = Remember(run, to)]]]
      PROVE  RoutingInv'
  <2>1. PICK r, a : r = [run EXCEPT !.routed = Remember(run, to)] /\ a = RoutedDraft(run, to)
    OBVIOUS
  <2>2. PICK f : f = [g EXCEPT !.pc = "write", !.draft = a, !.run = r]
    OBVIOUS
  <2>3. f.pc = "write" /\ f.draft = a /\ f.run = r
    BY <1>4, <2>2 DEF RouterFrame
  <2>4. Together(asg[run.version].owner)
    BY <1>7 DEF SequentialInv, ChoiceInv
  <2>5. Traced(r) /\ Follows(r, a)
    BY <1>6, <1>7, <1>8, <2>1, <2>4, RoutedFollows
  <2>6. r.version = run.version /\ r.status = run.status
    BY <1>6, <2>1 DEF Run
  <2>7. Underway(f)
    BY <1>7, <2>3, <2>5, <2>6 DEF Underway
  <2>8. FrameHolds(f)'
    BY <1>1, <2>3, <2>7, UnderwaySame DEF FrameHolds
  <2> QED
    BY <1>3, <1>9, <2>1, <2>2, <2>8, RoutingOf
<1>10. ASSUME router' = [router EXCEPT ![self].run = [run EXCEPT !.status = "complete"],
                                       ![self].pc = IF External(self) THEN "save" ELSE "returned"]
       PROVE  RoutingInv'
  <2>1. PICK r : r = [run EXCEPT !.status = "complete"]
    OBVIOUS
  <2>2. PICK f : f = [g EXCEPT !.run = r, !.pc = IF External(self) THEN "save" ELSE "returned"]
    OBVIOUS
  <2>3. f.run = r /\ f.pc \in {"save", "returned"}
    BY <1>4, <2>2 DEF RouterFrame
  <2>4. /\ r \in Run /\ r.version = run.version /\ r.status = "complete" /\ r.start = run.start
        /\ r.depth = run.depth /\ r.routed = run.routed
    BY <1>6, <2>1 DEF Run
  <2>5. Traced(r)
    <3>1. run.start <= r.version /\ r.version <= run.version
      BY <1>8, <2>4 DEF Traced, Run
    <3> QED
      BY <1>6, <1>8, <2>4, <3>1, TraceShorter
  <2>6. r.version <= Effective
    BY <1>6, <1>7, <2>4 DEF Run
  <2>7. Saved(r)
    BY <1>7, <2>4, <2>5, <2>6 DEF Saved
  <2>8. Saved(r)'
    BY <1>1, <2>7, SavedSame
  <2>9. FrameHolds(f)'
    BY <1>7, <2>3, <2>4, <2>8 DEF FrameHolds, AtRest, Underway
  <2>10. router' = [router EXCEPT ![self] = f]
    BY <1>3, <1>10, <2>1, <2>2
  <2> QED
    BY <2>9, <2>10, RoutingOf
<1>11. MyRouting(self) = g.run
  BY <1>3 DEF MyRouting
<1>12. RoutingInv'
  BY <1>5, <1>9, <1>10, <1>11 DEF Pass
<1> QED
  BY <1>2, <1>12 DEF SequentialInv

(* The version after the effective one is written.                         *)
LEMMA WritesNext ==
  ASSUME Typed, NEW v, v = Effective + 1, v <= MaxVersion, NEW a \in Assignment,
         a.prev \in Versions, WriteAssignment(v, a), chosen' \in [Queries -> Engines \cup {NoEngine}]
  PROVE  /\ Appends /\ Effective' = v /\ Versions' = Versions \cup {v} /\ asg'[v] = a
         /\ v \notin Versions
<1>1. /\ Versions = 1 .. Effective /\ Effective \in 1 .. MaxVersion /\ NextVersion = v
      /\ v \in 1 .. Effective + 1 /\ v \notin Versions
  BY VersionsAre DEF Typed
<1>2. a.prev < v
  BY <1>1
<1>3. /\ StoreTyped' /\ Versions \subseteq Versions' /\ asg'[v] = a /\ Effective' = v
      /\ \A w \in Versions : w # v => asg'[w] = asg[w]
  BY <1>1, <1>2, WriteStore DEF Typed
<1>4. Versions' = Versions \cup {v}
  BY DEF WriteAssignment, Put, Versions
<1> QED
  BY <1>1, <1>3, <1>4 DEF Appends

(* The writes of a table stay together, with a version more of which they  *)
(* are.                                                                    *)
LEMMA ChoiceWritten ==
  ASSUME Typed, ChoiceInv, Appends, NEW v, Effective' = v, Versions' = Versions \cup {v},
         Together(asg'[v].owner), Stands(v)'
  PROVE  ChoiceInv'
<1>1. Stands(Effective)'
  <2>1. PICK w : w = v
    OBVIOUS
  <2>2. Stands(w)' /\ Effective' = w
    BY <2>1
  <2> QED
    BY <2>2
<1>2. \A w \in Versions' : Together(asg'[w].owner)
  BY DEF ChoiceInv, Appends
<1> QED
  BY <1>1, <1>2 DEF ChoiceInv, Together

LEMMA FollowsStays ==
  ASSUME Typed, Appends, NEW run \in Run, run.version \in Versions, Traced(run), NEW a,
         Follows(run, a)
  PROVE  Follows(run, a)'
<1>1. asg'[run.version] = asg[run.version]
  BY DEF Appends
<1>2. Rerouted(run)' = Rerouted(run) /\ \A v \in Rerouted(run), q \in Queries : Moves(v, q)' <=> Moves(v, q)
  BY RerouteStays
<1> QED
  BY <1>1, <1>2 DEF Follows, Together

LEMMA WriteRerouteSequential ==
  ASSUME Typed, Typed', OneRouter, SequentialInv, NEW self \in RouterProcs, WriteReroute(self),
         broken' = broken
  PROVE  SequentialInv'
<1>1. PICK g : g = router[self]
  OBVIOUS
<1>2. PICK run, a : run = g.run /\ a = g.draft
  OBVIOUS
<1>3. g.pc = "write" /\ chosen' = chosen /\ UNCHANGED designVars /\ ext' = ext
  BY <1>1 DEF WriteReroute, AtRouter
<1>4. /\ g \in RouterFrame /\ run \in Run /\ run.version \in Versions /\ a \in Assignment
      /\ Underway(g)
  BY <1>1, <1>2, <1>3, FrameNow DEF SequentialInv, FrameHolds, FrameTyped, RouterFrame
<1>5. /\ Traced(run) /\ run.status # "rolled_back" /\ run.version = Effective
      /\ Covered(run.version, {}) /\ Follows(run, a)
  BY <1>2, <1>3, <1>4 DEF Underway
<1>6. PICK v : v = Effective + 1
  OBVIOUS
<1>7. Effective \in Nat /\ NextVersion = v /\ ext.version \in Nat
  BY <1>6, VersionsAre DEF Typed, RoutersTyped, RunTyped, Run
<1>8. Max({NextVersion, MyRouting(self).version + 1}) = v
  BY <1>1, <1>2, <1>5, <1>6, <1>7, MaxOfTwo DEF MyRouting
<1>9. /\ v <= MaxVersion /\ WriteAssignment(v, a)
      /\ router' = [router EXCEPT ![self] = [g EXCEPT !.pc = "carry", !.new = v,
                                                     !.designed = DesignedOn(run.version)]]
  BY <1>1, <1>2, <1>8 DEF WriteReroute, MyRouting
<1>10. a.prev \in Versions /\ chosen' \in [Queries -> Engines \cup {NoEngine}]
  BY <1>3, <1>4, <1>5 DEF Follows, Typed, StoreTyped
<1>11. /\ Appends /\ Effective' = v /\ Versions' = Versions \cup {v} /\ asg'[v] = a
  BY <1>4, <1>6, <1>9, <1>10, WritesNext
<1>12. Grow /\ \A n : KeepsTo(n)
  BY <1>3, DesignsStay DEF designVars
<1>13. DesignInv'
  BY <1>3, <1>5, <1>11, DesignsOfVersions DEF SequentialInv
<1>14. Saved(ext)'
  BY <1>3, <1>11, <1>12, ExtSaved DEF SequentialInv
<1>15. asg'[run.version] = asg[run.version]
  BY <1>4, <1>11 DEF Appends
<1>16. SamePicks(run.version, v)'
  BY <1>4, <1>5, <1>11, <1>15 DEF SamePicks, Follows, Assignment
<1>17. ChoiceInv'
  <2>1. Stands(run.version)
    BY <1>5 DEF SequentialInv, ChoiceInv
  <2>2. Stands(v)'
    BY <1>3, <1>15, <1>16, <2>1 DEF Stands, SamePicks
  <2>3. Together(asg'[v].owner)
    BY <1>5, <1>11 DEF Follows
  <2> QED
    BY <1>11, <2>2, <2>3, ChoiceWritten DEF SequentialInv
<1>18. PICK f : f = [g EXCEPT !.pc = "carry", !.new = v, !.designed = DesignedOn(run.version)]
  OBVIOUS
<1>19. f.pc = "carry" /\ f.new = v /\ f.designed = DesignedOn(run.version) /\ f.run = run
  BY <1>2, <1>4, <1>18 DEF RouterFrame
<1>20. Traced(run)' /\ Covered(run.version, {})' /\ DesignedOn(run.version)' = DesignedOn(run.version)
  <2>1. Traced(run)'
    BY <1>4, <1>5, <1>11, TraceStays
  <2>2. Covered(run.version, {})'
    BY <1>4, <1>5, <1>11, <1>12, CoverStays
  <2>3. DesignedOn(run.version)' = DesignedOn(run.version)
    BY <1>3 DEF DesignedOn, designVars
  <2> QED
    BY <2>1, <2>2, <2>3
<1>21. Follows(run, asg[v])'
  <2>1. Follows(run, a)'
    BY <1>4, <1>5, <1>11, FollowsStays
  <2> QED
    BY <1>11, <2>1
<1>22. run.version + 1 = v /\ ext'.version < v
  BY <1>3, <1>5, <1>6, <1>7 DEF SequentialInv, Saved
<1>23. Underway(f)'
  BY <1>5, <1>11, <1>12, <1>16, <1>19, <1>20, <1>21, <1>22 DEF Underway
<1>24. FrameHolds(f)'
  BY <1>19, <1>23 DEF FrameHolds
<1> QED
  BY <1>9, <1>13, <1>14, <1>17, <1>18, <1>24, RoutingOf DEF SequentialInv

LEMMA RollBackSequential ==
  ASSUME Typed, Typed', OneRouter, SequentialInv, NEW self \in RouterProcs, RollBack(self),
         broken' = broken
  PROVE  SequentialInv'
<1>1. PICK g : g = router[self]
  OBVIOUS
<1>2. PICK run, new : run = g.run /\ new = g.new
  OBVIOUS
<1>3. /\ g.pc = "rollback" /\ chosen' = chosen /\ UNCHANGED designVars /\ ext' = ext
      /\ new < MaxVersion /\ router' = [router EXCEPT ![self].pc = "restate"]
      /\ WriteAssignment(new + 1,
            [asg[run.version] EXCEPT !.source = "post_schema_routing", !.prev = new])
  BY <1>1, <1>2 DEF RollBack, AtRouter, MyRouting
<1>4. /\ g \in RouterFrame /\ run \in Run /\ run.version \in Versions /\ Underway(g)
      /\ new \in Versions
  BY <1>1, <1>2, <1>3, FrameNow DEF SequentialInv, FrameHolds, FrameTyped, RouterFrame
<1>5. /\ Traced(run) /\ run.status # "rolled_back" /\ new = Effective
      /\ SamePicks(run.version, new) /\ ext.version <= new /\ g.designed = DesignedOn(run.version)
  BY <1>2, <1>3, <1>4 DEF Underway
<1>6. PICK v : v = Effective + 1
  OBVIOUS
<1>7. PICK a : a = [asg[run.version] EXCEPT !.source = "post_schema_routing", !.prev = new]
  OBVIOUS
<1>8. asg[run.version] \in Assignment /\ new \in 0 .. MaxVersion /\ Effective \in Nat /\ v <= MaxVersion
  BY <1>3, <1>4, <1>5, <1>6, VersionsAre DEF Typed
<1>9. /\ a \in Assignment /\ a.prev = new /\ a.owner = asg[run.version].owner
      /\ a.pinned = asg[run.version].pinned /\ a.source = "post_schema_routing"
  BY <1>7, <1>8 DEF Assignment, Source
<1>10. WriteAssignment(v, a) /\ chosen' \in [Queries -> Engines \cup {NoEngine}]
  BY <1>3, <1>5, <1>6, <1>7 DEF Typed, StoreTyped
<1>11. /\ Appends /\ Effective' = v /\ Versions' = Versions \cup {v} /\ asg'[v] = a
  BY <1>4, <1>6, <1>8, <1>9, <1>10, WritesNext
<1>12. Grow /\ \A n : KeepsTo(n)
  BY <1>3, DesignsStay DEF designVars
<1>13. DesignInv'
  BY <1>3, <1>5, <1>11, DesignsOfVersions DEF SequentialInv
<1>14. Saved(ext)'
  BY <1>3, <1>11, <1>12, ExtSaved DEF SequentialInv
<1>15. asg'[run.version] = asg[run.version]
  BY <1>4, <1>11 DEF Appends
<1>16. ChoiceInv'
  <2>1. Stands(new) /\ Together(asg[run.version].owner)
    BY <1>4, <1>5 DEF SequentialInv, ChoiceInv
  <2>2. Stands(v)'
    BY <1>3, <1>5, <1>9, <1>11, <2>1 DEF Stands, SamePicks
  <2> QED
    BY <1>9, <1>11, <2>1, <2>2, ChoiceWritten DEF SequentialInv
<1>17. PICK f : f = [g EXCEPT !.pc = "restate"]
  OBVIOUS
<1>18. f.pc = "restate" /\ f.new = new /\ f.designed = DesignedOn(run.version) /\ f.run = run
  BY <1>2, <1>4, <1>5, <1>17 DEF RouterFrame
<1>19. Traced(run)'
  BY <1>4, <1>5, <1>11, TraceStays
<1>20. DesignedOn(run.version)' = DesignedOn(run.version)
  BY <1>3 DEF DesignedOn, designVars
<1>21. new + 1 = Effective'
  BY <1>5, <1>6, <1>11
<1>22. Underway(f)'
  BY <1>3, <1>5, <1>9, <1>11, <1>12, <1>15, <1>18, <1>19, <1>20, <1>21 DEF Underway
<1>23. FrameHolds(f)'
  BY <1>18, <1>22 DEF FrameHolds
<1> QED
  BY <1>1, <1>3, <1>13, <1>14, <1>16, <1>17, <1>23, RoutingOf DEF SequentialInv

(* A routing at rest stays so while others write.                          *)
LEMMA RestingStay ==
  ASSUME Typed, RoutingInv, RoutersRest, Appends, Grow, broken => broken', router' = router,
         \A p \in RouterProcs :
            router[p].run.status = "rolled_back" => KeepsTo(router[p].run.version)
  PROVE  RoutingInv'
<1>1. ASSUME NEW p \in RouterProcs PROVE AtRest(router[p])'
  <2>1. PICK f : f = router[p]
    OBVIOUS
  <2>2. f \in RouterFrame /\ f.pc \in {"idle", "returned", "raised"} /\ AtRest(f)
    BY <2>1, FrameNow DEF RoutersRest, RouterRests, FrameHolds
  <2>3. PICK run : run = f.run
    OBVIOUS
  <2>4. run.status # "awaiting_redesign" /\ Saved(run) /\ run \in Run
    BY <2>2, <2>3 DEF AtRest, NoRun, RouterFrame
  <2>5. RunTyped(run)
    BY <2>4, VersionsAre DEF Saved, RunTyped, Run, Typed
  <2>6. Saved(run)'
    BY <2>1, <2>3, <2>4, <2>5, SavedStays
  <2>7. AtRest(f)'
    BY <2>2, <2>3, <2>6 DEF AtRest
  <2> QED
    BY <2>1, <2>7
<1>2. \A p \in RouterProcs : RouterRests(p)'
  BY DEF RoutersRest, RouterRests
<1> QED
  BY <1>1, <1>2 DEF RoutingInv

LEMMA EndsSequential ==
  ASSUME Typed, Typed', OneRouter, SequentialInv, NEW self \in RouterProcs,
         (Save(self) /\ broken' = broken) \/ RouterStops(self), broken => broken'
  PROVE  SequentialInv'
<1>1. UNCHANGED <<asg, chosen, designVars>> /\ router' = [router EXCEPT ![self] = RouterIdle]
  BY DEF Save, RouterStops
<1>2. DesignInv' /\ ChoiceInv' /\ (ext' = ext => Saved(ext)')
  BY <1>1, NothingWritten
<1>3. PICK f : f = RouterIdle
  OBVIOUS
<1>4. f.pc = "idle" /\ AtRest(f)'
  BY <1>3, IdleRestsNext DEF RouterIdle
<1>5. RoutingInv'
  BY <1>1, <1>3, <1>4, RoutingOf DEF FrameHolds
<1>6. Saved(ext)'
  <2>1. CASE Save(self) /\ broken' = broken
    <3>1. PICK run : run = router[self].run
      OBVIOUS
    <3>2. ext' = run /\ router[self].pc = "save"
      BY <2>1, <3>1 DEF Save, AtRouter, MyRouting
    <3>3. Saved(run)
      BY <3>1, <3>2, FrameNow DEF SequentialInv, FrameHolds, Underway
    <3>4. Saved(run)'
      BY <1>1, <2>1, <3>3, SavedSame
    <3> QED
      BY <3>2, <3>4
  <2>2. CASE RouterStops(self)
    BY <1>2, <2>2 DEF RouterStops
  <2> QED
    BY <2>1, <2>2
<1> QED
  BY <1>2, <1>5, <1>6 DEF SequentialInv

LEMMA EditSequential ==
  ASSUME Typed, Typed', ~Overlap, SequentialInv, EditAssignment
  PROVE  SequentialInv'
<1>1. PICK a \in Edits(Effective) :
         WriteAssignment(NextVersion, a) /\ chosen' = PicksOf(a) /\ Effective < MaxVersion
  BY DEF EditAssignment
<1>2. /\ RoutersRest /\ UNCHANGED designVars /\ router' = router /\ ext' = ext
      /\ broken' = broken
  BY DEF EditAssignment, routerVars
<1>3. PICK v : v = Effective + 1
  OBVIOUS
<1>4. Effective \in Versions /\ Effective \in 1 .. MaxVersion /\ NextVersion = v /\ MaxVersion \in Nat
  BY <1>3, VersionsAre DEF Typed
<1>5. v <= MaxVersion
  BY <1>1, <1>3, <1>4
<1>6. /\ a \in Assignment /\ a.prev \in Versions
      /\ \E q \in Queries, e \in Engines : a.owner = MoveTo(asg[Effective].owner, UnitOf(q), e)
  BY <1>4, EditIs DEF Typed
<1>7. chosen' \in [Queries -> Engines \cup {NoEngine}]
  BY <1>1, <1>6 DEF PicksOf, Assignment
<1>8. /\ Appends /\ Effective' = v /\ Versions' = Versions \cup {v} /\ asg'[v] = a
  BY <1>1, <1>3, <1>4, <1>5, <1>6, <1>7, WritesNext
<1>9. Grow /\ \A n : KeepsTo(n)
  BY <1>2, DesignsStay DEF designVars
<1>10. DesignInv'
  BY <1>2, <1>8, DesignsOfVersions DEF SequentialInv
<1>11. Saved(ext)'
  BY <1>2, <1>8, <1>9, ExtSaved DEF SequentialInv
<1>12. RoutingInv'
  BY <1>2, <1>8, <1>9, RestingStay DEF SequentialInv
<1>13. Together(a.owner)
  <2>1. PICK q \in Queries, e \in Engines : a.owner = MoveTo(asg[Effective].owner, UnitOf(q), e)
    BY <1>6
  <2>2. Together(asg[Effective].owner)
    BY <1>4 DEF SequentialInv, ChoiceInv
  <2>3. CASE q \in WriteGroup
    BY <2>1, <2>3, AssignmentAssumption DEF Together, MoveTo, UnitOf
  <2>4. CASE q \notin WriteGroup
    <3>1. \A r \in WriteGroup : a.owner[r] = asg[Effective].owner[r]
      BY <2>1, <2>4, AssignmentAssumption DEF MoveTo, UnitOf
    <3> QED
      BY <2>2, <3>1 DEF Together
  <2> QED
    BY <2>3, <2>4
<1>14. Stands(v)'
  BY <1>1, <1>8 DEF Stands, PicksOf
<1>15. ChoiceInv'
  BY <1>8, <1>13, <1>14, ChoiceWritten DEF SequentialInv
<1> QED
  BY <1>10, <1>11, <1>12, <1>15 DEF SequentialInv

LEMMA OthersDesigned ==
  ASSUME NEW n, NEW m, m # n, WritesAt(n), Grow
  PROVE  DesignedOn(m)' = DesignedOn(m)
  BY DEF DesignedOn, WritesAt, Grow

LEMMA FollowsAlike ==
  ASSUME NEW run, NEW r, r.version = run.version, r.start = run.start, r.routed = run.routed,
         NEW a, Follows(run, a)
  PROVE  Follows(r, a)
  BY DEF Follows, Rerouted

(* A run moved nothing twice after one more reroute either.                *)
LEMMA TraceNext ==
  ASSUME Typed, NEW run \in Run, Traced(run), run.version \in Versions, NEW new \in Versions,
         new = run.version + 1, run.depth < MaxDepth, Follows(run, asg[new]),
         NEW r, r = AfterReroute(run, new)
  PROVE  Traced(r)
<1>1. /\ r \in Run /\ r.version = new /\ r.start = run.start /\ r.depth = run.depth + 1
      /\ r.routed = run.routed
  <2>1. run.version < new
    BY VersionsAre DEF Typed
  <2> QED
    BY <2>1, AfterRerouteIs DEF Typed
<1>2. /\ Versions = 1 .. Effective /\ Effective \in Nat /\ run.start \in Nat /\ run.depth \in Nat
      /\ run.version \in Nat
  BY VersionsAre DEF Typed, Run
<1>3. /\ r.start <= r.version /\ r.version <= r.start + r.depth /\ r.depth <= MaxDepth
      /\ r.version <= Effective /\ r.start # 0
  BY <1>1, <1>2 DEF Traced, MaxDepth
<1>4. Rerouted(r) \subseteq Rerouted(run) \cup {new}
  BY <1>1, <1>2 DEF Rerouted
<1>5. ASSUME NEW q \in Queries, Moves(new, q)
      PROVE  q \in run.routed /\ \A w \in Rerouted(run) : ~Moves(w, q)
  BY <1>5 DEF Follows, Moves
<1>6. ASSUME NEW q \in Queries, NEW v \in Rerouted(r), Moves(v, q)
      PROVE  q \in r.routed /\ \A w \in Rerouted(r) : Moves(w, q) => w = v
  <2>1. CASE v = new
    BY <1>1, <1>4, <1>5, <1>6, <2>1
  <2>2. CASE v # new
    <3>1. v \in Rerouted(run)
      BY <1>4, <2>2
    <3>2. q \in run.routed /\ \A w \in Rerouted(run) : Moves(w, q) => w = v
      BY <1>6, <3>1 DEF Traced
    <3>3. ~Moves(new, q)
      BY <1>5, <1>6, <3>1
    <3> QED
      BY <1>1, <1>4, <3>2, <3>3
  <2> QED
    BY <2>1, <2>2
<1>7. WriteGroup \subseteq r.routed \/ WriteGroup \cap r.routed = {}
  BY <1>1 DEF Traced
<1> QED
  BY <1>3, <1>6, <1>7 DEF Traced

LEMMA CarrySequential ==
  ASSUME Typed, Typed', OneRouter, SequentialInv, NEW self \in RouterProcs, Carry(self),
         broken' = broken
  PROVE  SequentialInv'
<1>1. PICK g : g = router[self]
  OBVIOUS
<1>2. PICK run, new : run = g.run /\ new = g.new
  OBVIOUS
<1>3. /\ g.pc = "carry" /\ asg' = asg /\ chosen' = chosen /\ revisions' = revisions
      /\ ext' = ext
  BY <1>1 DEF Carry, AtRouter
<1>4. /\ g \in RouterFrame /\ run \in Run /\ run.version \in Versions /\ Underway(g)
      /\ new \in Versions /\ run.version < new /\ run.depth < MaxDepth
  BY <1>1, <1>2, <1>3, FrameNow DEF SequentialInv, FrameHolds, FrameTyped, RouterFrame
<1>5. /\ Traced(run) /\ run.status # "rolled_back" /\ new = Effective
      /\ SamePicks(run.version, new) /\ ext.version < new /\ g.designed = DesignedOn(run.version)
      /\ run.version + 1 = new /\ Follows(run, asg[new]) /\ Covered(run.version, {})
  BY <1>2, <1>3, <1>4 DEF Underway
<1>6. Appends /\ Versions' = Versions /\ Effective' = Effective
  BY <1>3, AppendsSame DEF Typed
<1>7. ChoiceInv'
  BY <1>3, ChoiceStays DEF SequentialInv
<1>8. PICK carried : carried = Carried(run.version, new) \cap g.designed
  OBVIOUS
<1>9. /\ carried \subseteq Engines /\ carried \subseteq DesignedOn(run.version)
      /\ carried = Unaffected(run.version, new) \cap DesignedOn(run.version)
  BY <1>5, <1>8 DEF Carried, DesignedOn
<1>10. run.version \in Nat /\ new \in Nat /\ ext.version \in Nat /\ run.version # new
  BY <1>4, VersionsAre DEF Typed, RoutersTyped, RunTyped, Run
<1>11. CASE carried = Fit(run.version, carried)
  <2>1. PICK ar, lr : ar = AfterReroute(run, new)
                      /\ lr = [run EXCEPT !.redesign = Affected(run.version, new)]
    OBVIOUS
  <2>2. /\ CopyDesigns(carried, run.version, new)
        /\ router' = [router EXCEPT
              ![self].pc = IF External(self) THEN "save" ELSE "redesign",
              ![self].run = IF External(self) THEN ar ELSE lr]
    BY <1>1, <1>2, <1>8, <1>11, <2>1 DEF Carry, MyRouting
  <2>3. new \in Versions' /\ Versions' \subseteq Version
    BY <1>4, <1>6, VersionsAre DEF Typed, Version
  <2>4. /\ Grow
        /\ \A e \in Engines : DOMAIN designs'[e] = IF e \in carried THEN DOMAIN designs[e] \cup {new}
                                                 ELSE DOMAIN designs[e]
        /\ \A e \in carried : designs'[e][new] = designs[e][run.version]
        /\ \A e \in Engines : \A v \in DOMAIN designs[e] :
              e \notin carried \/ v # new => designs'[e][v] = designs[e][v]
    <3>1. PICK src : src = run.version
      OBVIOUS
    <3>2. carried \in SUBSET Engines /\ carried \subseteq DesignedOn(src) /\ CopyDesigns(carried, src, new)
      BY <1>9, <2>2, <3>1
    <3>3. revisions' = revisions
      BY <1>3
    <3> QED
      BY <2>3, <3>1, <3>2, <3>3, CopyIs
  <2>5. WritesAt(new)
    BY <2>4 DEF WritesAt
  <2>6. \A v \in Versions : \A e \in Engines :
           v \in DOMAIN designs[e] /\ ~designs[e][v].revised => designs[e][v].scope = Scope(v, e)
    BY DEF SequentialInv, DesignInv
  <2>7. ASSUME NEW e \in Engines, new \in DOMAIN designs'[e], ~designs'[e][new].revised
        PROVE  designs'[e][new].scope = Scope(new, e)
    <3>1. CASE e \in carried
      <4>1. run.version \in DOMAIN designs[e] /\ Scope(run.version, e) = Scope(new, e)
        BY <1>9, <3>1 DEF DesignedOn, Unaffected, Affected
      <4> QED
        BY <1>4, <2>4, <2>6, <2>7, <3>1, <4>1
    <3>2. CASE e \notin carried
      BY <1>4, <2>4, <2>6, <2>7, <3>2
    <3> QED
      BY <3>1, <3>2
  <2>8. DesignInv'
    BY <1>3, <1>4, <2>4, <2>5, <2>7, DesignsWritten DEF SequentialInv
  <2>9. Saved(ext)'
    <3>1. KeepsTo(ext.version)
      BY <1>5, <1>10, <2>4, <2>5, KeepsBelow
    <3> QED
      BY <1>3, <1>6, <2>4, <3>1, ExtSaved DEF SequentialInv
  <2>10. Covered(new, Affected(run.version, new))'
    <3>1. CASE broken
      BY <3>1 DEF Covered
    <3>2. CASE ~broken
      <4>1. EnginesOf(run.version) \subseteq DesignedOn(run.version)
        BY <1>5, <3>2 DEF Covered
      <4>2. ASSUME NEW e \in EnginesOf(new), e \notin Affected(run.version, new)
            PROVE  e \in DesignedOn(new)'
        <5>1. Scope(run.version, e) = Scope(new, e)
          BY <4>2 DEF Affected
        <5>2. e \in EnginesOf(run.version)
          BY <4>2, <5>1 DEF EnginesOf, Scope
        <5>3. e \in carried
          BY <1>9, <4>1, <4>2, <5>2 DEF Unaffected
        <5> QED
          BY <1>9, <2>4, <5>3 DEF DesignedOn
      <4>3. EnginesOf(new)' = EnginesOf(new) /\ Affected(run.version, new)' = Affected(run.version, new)
        BY <1>3 DEF EnginesOf, Affected, Scope
      <4> QED
        BY <4>2, <4>3 DEF Covered
    <3> QED
      BY <3>1, <3>2
  <2>11. SamePicks(run.version, new)' /\ EnginesOf(new)' = EnginesOf(new) /\ asg'[new] = asg[new]
    BY <1>3, <1>5 DEF SamePicks, EnginesOf
  <2>12. CASE External(self)
    <3>1. /\ ar.status = "awaiting_redesign" /\ ar.version = new /\ ar.previous = run.version
          /\ ar.start = run.start /\ ar.redesign = Affected(run.version, new) /\ ar \in Run
      BY <1>4, <2>1, AfterRerouteIs DEF Typed
    <3>2. Traced(ar)
      BY <1>4, <1>5, <2>1, TraceNext
    <3>3. Traced(ar)'
      BY <1>6, <3>1, <3>2, TraceStays
    <3>4. run.start <= run.version
      BY <1>5 DEF Traced
    <3>5. Covered(ar.version, ar.redesign)'
      <4>1. Affected(run.version, new)' = Affected(run.version, new)
        BY <1>3 DEF Affected, EnginesOf, Scope
      <4> QED
        BY <2>10, <3>1, <4>1
    <3>6. ar.version # 0 /\ ar.version <= Effective'
      BY <1>4, <1>5, <1>6, <1>10, <3>1, VersionsAre DEF Typed
    <3>7. Saved(ar)'
      BY <2>11, <3>1, <3>3, <3>4, <3>5, <3>6 DEF Saved
    <3>8. PICK f : f = [g EXCEPT !.pc = "save", !.run = ar]
      OBVIOUS
    <3>9. f.pc = "save" /\ f.run = ar
      BY <1>4, <3>8 DEF RouterFrame
    <3>10. FrameHolds(f)'
      BY <1>3, <1>5, <3>7, <3>9 DEF FrameHolds, Underway
    <3> QED
      BY <1>1, <1>7, <2>2, <2>8, <2>9, <2>12, <3>8, <3>10, RoutingOf DEF SequentialInv
  <2>13. CASE ~External(self)
    <3>1. Affected(run.version, new) \subseteq EnginesOf(new) /\ EnginesOf(new) \subseteq Engines
      BY <1>4, AfterRerouteIs DEF Typed
    <3>2. /\ lr.version = run.version /\ lr.start = run.start /\ lr.depth = run.depth
          /\ lr.routed = run.routed /\ lr.status = run.status /\ lr \in Run
          /\ lr.redesign = Affected(run.version, new)
      BY <1>4, <2>1, <3>1 DEF Run
    <3>3. Traced(lr)'
      <4>1. run.start <= lr.version /\ lr.version <= run.version
        BY <1>5, <1>10, <3>2 DEF Traced
      <4>2. Traced(lr)
        BY <1>4, <1>5, <3>2, <4>1, TraceShorter
      <4> QED
        BY <1>6, <3>2, <4>2, TraceStays
    <3>4. Follows(lr, asg[new])'
      <4>1. PICK a : a = asg[new]
        OBVIOUS
      <4>2. Follows(lr, a)
        BY <1>5, <3>2, <4>1, FollowsAlike
      <4>3. Traced(lr)
        BY <1>3, <3>3 DEF Traced, Rerouted, Moves, Versions, Effective
      <4>4. Follows(lr, a)'
        BY <1>4, <1>6, <3>2, <4>2, <4>3, FollowsStays
      <4> QED
        BY <2>11, <4>1, <4>4
    <3>5. Covered(run.version, {})'
      BY <1>4, <1>5, <1>6, <2>4, CoverStays
    <3>6. DesignedOn(run.version)' = DesignedOn(run.version)
      BY <1>10, <2>4, <2>5, OthersDesigned
    <3>7. PICK f : f = [g EXCEPT !.pc = "redesign", !.run = lr]
      OBVIOUS
    <3>8. f.pc = "redesign" /\ f.run = lr /\ f.new = new /\ f.designed = DesignedOn(run.version)
      BY <1>2, <1>4, <1>5, <3>7 DEF RouterFrame
    <3>9. Covered(new, lr.redesign)'
      <4>1. Affected(run.version, new)' = Affected(run.version, new)
        BY <1>3 DEF Affected, EnginesOf, Scope
      <4> QED
        BY <2>10, <3>2, <4>1
    <3>10. Underway(f)'
      BY <1>3, <1>5, <1>6, <2>11, <3>1, <3>2, <3>3, <3>4, <3>5, <3>6, <3>8, <3>9 DEF Underway
    <3>11. FrameHolds(f)'
      BY <3>8, <3>10 DEF FrameHolds
    <3> QED
      BY <1>1, <1>7, <2>2, <2>8, <2>9, <2>13, <3>7, <3>11, RoutingOf DEF SequentialInv
  <2> QED
    BY <2>12, <2>13
<1>12. CASE carried # Fit(run.version, carried)
  <2>1. designs' = designs /\ router' = [router EXCEPT ![self].pc = "rollback"]
    BY <1>1, <1>2, <1>8, <1>12 DEF Carry, MyRouting
  <2>2. UNCHANGED <<asg, chosen, designVars>> /\ UNCHANGED <<asg, designVars, ext, broken>>
    BY <1>3, <2>1 DEF designVars
  <2>3. DesignInv' /\ Saved(ext)'
    BY <1>3, <2>2, NothingWritten
  <2>4. PICK f : f = [g EXCEPT !.pc = "rollback"]
    OBVIOUS
  <2>5. f.pc = "rollback" /\ f.run = run /\ f.new = new /\ f.designed = DesignedOn(run.version)
    BY <1>2, <1>4, <1>5, <2>4 DEF RouterFrame
  <2>6. Underway(f)
    BY <1>5, <1>10, <2>5 DEF Underway
  <2>7. FrameHolds(f)'
    BY <2>2, <2>5, <2>6, UnderwaySame DEF FrameHolds
  <2> QED
    BY <1>1, <1>7, <2>1, <2>3, <2>4, <2>7, RoutingOf DEF SequentialInv
<1> QED
  BY <1>11, <1>12

LEMMA RedesignSequential ==
  ASSUME Typed, Typed', OneRouter, SequentialInv, NEW self \in RouterProcs,
         Redesign(self) \/ RedesignFails(self), broken' = broken
  PROVE  SequentialInv'
<1>1. PICK g : g = router[self]
  OBVIOUS
<1>2. PICK run, new : run = g.run /\ new = g.new
  OBVIOUS
<1>3. g.pc = "redesign" /\ asg' = asg /\ chosen' = chosen /\ ext' = ext
  BY <1>1 DEF Redesign, RedesignFails, AtRouter
<1>4. /\ g \in RouterFrame /\ run \in Run /\ run.version \in Versions /\ Underway(g)
      /\ new \in Versions /\ run.version < new /\ run.depth < MaxDepth
  BY <1>1, <1>2, <1>3, FrameNow DEF SequentialInv, FrameHolds, FrameTyped, RouterFrame
<1>5. /\ Traced(run) /\ run.status # "rolled_back" /\ new = Effective
      /\ SamePicks(run.version, new) /\ ext.version < new /\ g.designed = DesignedOn(run.version)
      /\ run.version + 1 = new /\ Follows(run, asg[new]) /\ Covered(run.version, {})
      /\ run.redesign \subseteq EnginesOf(new) /\ Covered(new, run.redesign)
  BY <1>2, <1>3, <1>4 DEF Underway
<1>6. Appends /\ Versions' = Versions /\ Effective' = Effective
  BY <1>3, AppendsSame DEF Typed
<1>7. ChoiceInv'
  BY <1>3, ChoiceStays DEF SequentialInv
<1>8. run.version \in Nat /\ new \in Nat /\ ext.version \in Nat /\ run.version # new /\ new # 0
  BY <1>4, VersionsAre DEF Typed, RoutersTyped, RunTyped, Run
<1>9. ASSUME UNCHANGED designVars, NEW f, Underway(f), f.pc \in {"pass", "rollback"},
             router' = [router EXCEPT ![self] = f]
      PROVE  SequentialInv'
  <2>1. UNCHANGED <<asg, chosen, designVars>> /\ UNCHANGED <<asg, designVars, ext, broken>>
    BY <1>3, <1>9
  <2>2. DesignInv' /\ Saved(ext)'
    BY <1>3, <2>1, NothingWritten
  <2>3. FrameHolds(f)'
    BY <1>9, <2>1, UnderwaySame DEF FrameHolds
  <2> QED
    BY <1>7, <1>9, <2>2, <2>3, RoutingOf DEF SequentialInv
<1>10. CASE Redesign(self) /\ run.redesign = {}
  <2>1. PICK ar : ar = AfterReroute(run, new)
    OBVIOUS
  <2>2. PICK f : f = [g EXCEPT !.pc = "pass", !.run = ar]
    OBVIOUS
  <2>3. f.pc = "pass" /\ f.run = ar
    BY <1>4, <2>2 DEF RouterFrame
  <2>4. router' = [router EXCEPT ![self] = f] /\ UNCHANGED designVars
    BY <1>1, <1>2, <1>10, <2>1, <2>2 DEF Redesign, MyRouting
  <2>5. ar.version = new /\ ar.status = "awaiting_redesign"
    BY <1>4, <2>1, AfterRerouteIs DEF Typed
  <2>6. Traced(ar)
    BY <1>4, <1>5, <2>1, TraceNext
  <2>7. Underway(f)
    BY <1>5, <1>10, <2>3, <2>5, <2>6 DEF Underway
  <2> QED
    BY <1>9, <2>3, <2>4, <2>7
<1>11. CASE RedesignFails(self)
  <2>1. PICK f : f = [g EXCEPT !.pc = "rollback"]
    OBVIOUS
  <2>2. f.pc = "rollback" /\ f.run = run /\ f.new = new /\ f.designed = DesignedOn(run.version)
    BY <1>2, <1>4, <1>5, <2>1 DEF RouterFrame
  <2>3. Underway(f)
    BY <1>5, <1>8, <2>2 DEF Underway
  <2>4. router' = [router EXCEPT ![self] = f] /\ UNCHANGED designVars
    BY <1>1, <1>11, <2>1 DEF RedesignFails
  <2> QED
    BY <1>9, <2>2, <2>3, <2>4
<1>12. CASE Redesign(self) /\ run.redesign # {}
  <2>1. PICK e \in run.redesign : /\ DesignEngine(e, new)
                                  /\ router' = [router EXCEPT ![self].run.redesign = @ \ {e}]
    BY <1>1, <1>2, <1>12 DEF Redesign, MyRouting
  <2>2. e \in Engines
    BY <1>4 DEF Run
  <2>3. /\ Grow /\ new \in DOMAIN designs'[e]
        /\ designs'[e][new] = Designed(new, e)
        /\ \A d \in Engines : DOMAIN designs'[d] \subseteq DOMAIN designs[d] \cup {new}
        /\ \A d \in Engines \ {e} : designs'[d] = designs[d]
        /\ \A w \in DOMAIN designs[e] \ {new} : designs'[e][w] = designs[e][w]
    BY <1>4, <2>1, <2>2, DesignIs
  <2>4. WritesAt(new)
    BY <2>3 DEF WritesAt
  <2>5. ASSUME NEW d \in Engines, new \in DOMAIN designs'[d], ~designs'[d][new].revised
        PROVE  designs'[d][new].scope = Scope(new, d)
    <3>1. CASE d = e
      BY <2>3, <3>1 DEF Designed
    <3>2. CASE d # e
      BY <2>3, <2>5, <3>2 DEF SequentialInv, DesignInv
    <3> QED
      BY <3>1, <3>2
  <2>6. DesignInv'
    BY <1>3, <1>4, <2>3, <2>4, <2>5, DesignsWritten DEF SequentialInv
  <2>7. Saved(ext)'
    <3>1. KeepsTo(ext.version)
      BY <1>5, <1>8, <2>3, <2>4, KeepsBelow
    <3> QED
      BY <1>3, <1>6, <2>3, <3>1, ExtSaved DEF SequentialInv
  <2>8. PICK r : r = [run EXCEPT !.redesign = @ \ {e}]
    OBVIOUS
  <2>9. /\ r \in Run /\ r.version = run.version /\ r.start = run.start /\ r.depth = run.depth
        /\ r.routed = run.routed /\ r.status = run.status /\ r.redesign = run.redesign \ {e}
    BY <1>4, <2>8 DEF Run
  <2>10. PICK f : f = [g EXCEPT !.run = r]
    OBVIOUS
  <2>11. router' = [router EXCEPT ![self] = f]
    BY <1>1, <1>2, <2>1, <2>8, <2>10
  <2>12. f.pc = "redesign" /\ f.run = r /\ f.new = new /\ f.designed = DesignedOn(run.version)
    BY <1>2, <1>3, <1>4, <1>5, <2>10 DEF RouterFrame
  <2>13. Traced(r)
    <3>1. run.start <= r.version /\ r.version <= run.version
      BY <1>5, <1>8, <2>9 DEF Traced
    <3> QED
      BY <1>4, <1>5, <2>9, <3>1, TraceShorter
  <2>14. Traced(r)'
    BY <1>6, <2>9, <2>13, TraceStays
  <2>15. PICK a : a = asg[new]
    OBVIOUS
  <2>16. Follows(r, asg[new])'
    <3>1. Follows(r, a)
      BY <1>5, <2>9, <2>15, FollowsAlike
    <3>2. Follows(r, a)'
      BY <1>4, <1>6, <2>9, <2>13, <3>1, FollowsStays
    <3> QED
      BY <1>3, <2>15, <3>2
  <2>17. Covered(run.version, {})'
    BY <1>4, <1>5, <1>6, <2>3, CoverStays
  <2>18. DesignedOn(run.version)' = DesignedOn(run.version)
    BY <1>8, <2>3, <2>4, OthersDesigned
  <2>19. Covered(new, r.redesign)'
    <3>1. Covered(new, run.redesign)'
      BY <1>4, <1>5, <1>6, <2>3, CoverStays
    <3>2. e \in DesignedOn(new)'
      BY <2>2, <2>3 DEF DesignedOn
    <3> QED
      BY <2>9, <3>1, <3>2 DEF Covered
  <2>20. SamePicks(run.version, new)' /\ EnginesOf(new)' = EnginesOf(new)
    BY <1>3, <1>5 DEF SamePicks, EnginesOf
  <2>21. Underway(f)'
    BY <1>3, <1>5, <1>6, <2>3, <2>9, <2>12, <2>14, <2>16, <2>17, <2>18, <2>19, <2>20 DEF Underway
  <2>22. FrameHolds(f)'
    BY <2>12, <2>21 DEF FrameHolds
  <2> QED
    BY <1>7, <2>6, <2>7, <2>11, <2>22, RoutingOf DEF SequentialInv
<1> QED
  BY <1>10, <1>11, <1>12

LEMMA RestateSequential ==
  ASSUME Typed, Typed', OneRouter, SequentialInv, NEW self \in RouterProcs, Restate(self),
         broken' = broken
  PROVE  SequentialInv'
<1>1. PICK g : g = router[self]
  OBVIOUS
<1>2. PICK run, v, es : run = g.run /\ v = g.new + 1 /\ es = Restated(self)
  OBVIOUS
<1>3. /\ g.pc = "restate" /\ asg' = asg /\ chosen' = chosen /\ revisions' = revisions
      /\ ext' = ext /\ CopyDesigns(es, run.version, v)
  BY <1>1, <1>2 DEF Restate, AtRouter, MyRouting
<1>4. /\ g \in RouterFrame /\ run \in Run /\ run.version \in Versions /\ Underway(g)
      /\ v \in Versions /\ g.new \in Versions /\ run.version < g.new
  BY <1>1, <1>2, <1>3, FrameNow DEF SequentialInv, FrameHolds, FrameTyped, RouterFrame
<1>5. /\ v = Effective /\ ext.version <= g.new
      /\ g.designed = DesignedOn(run.version) /\ asg[v].source = "post_schema_routing"
      /\ asg[v].owner = asg[run.version].owner /\ asg[v].pinned = asg[run.version].pinned
  BY <1>2, <1>3, <1>4 DEF Underway
<1>6. Appends /\ Versions' = Versions /\ Effective' = Effective
  BY <1>3, AppendsSame DEF Typed
<1>7. ChoiceInv'
  BY <1>3, ChoiceStays DEF SequentialInv
<1>8. /\ run.version \in Nat /\ v \in Nat /\ ext.version \in Nat /\ run.version < v
      /\ ext.version < v /\ v # 0 /\ run.version \in 0 .. MaxVersion /\ v \in 0 .. MaxVersion
      /\ Versions \subseteq Version
  <2>1. Versions = 1 .. Effective /\ Effective \in 1 .. MaxVersion /\ MaxVersion \in Nat
    BY VersionsAre DEF Typed
  <2>2. ext.version \in Nat
    BY DEF Typed, RoutersTyped, RunTyped, Run
  <2>3. Versions \subseteq Version
    BY <2>1 DEF Version
  <2>4. run.version \in 1 .. MaxVersion /\ g.new \in 1 .. MaxVersion /\ v \in 1 .. MaxVersion
    BY <1>4, <2>3 DEF Version
  <2>5. v = g.new + 1 /\ run.version < g.new /\ ext.version <= g.new
    BY <1>2, <1>4, <1>5
  <2> QED
    BY <2>1, <2>2, <2>3, <2>4, <2>5
<1>9. es = Fit(run.version, DesignedOn(run.version))
  BY <1>1, <1>2, <1>5 DEF Restated, MyRouting
<1>10. PICK src : src = run.version
  OBVIOUS
<1>11. es \in SUBSET Engines /\ es \subseteq DesignedOn(src) /\ CopyDesigns(es, src, v)
  BY <1>3, <1>9, <1>10 DEF Fit, DesignedOn
<1>12. /\ Grow
       /\ \A e \in Engines : DOMAIN designs'[e] = IF e \in es THEN DOMAIN designs[e] \cup {v}
                                                ELSE DOMAIN designs[e]
       /\ \A e \in es : designs'[e][v] = designs[e][src]
       /\ \A e \in Engines : \A w \in DOMAIN designs[e] :
             e \notin es \/ w # v => designs'[e][w] = designs[e][w]
  <2>1. v \in Versions' /\ Versions' \subseteq Version
    BY <1>4, <1>6, <1>8
  <2>2. revisions' = revisions
    BY <1>3
  <2> QED
    BY <1>11, <2>1, <2>2, CopyIs
<1>13. WritesAt(v)
  BY <1>12 DEF WritesAt
<1>14. \A w \in Versions : \A e \in Engines :
          w \in DOMAIN designs[e] /\ ~designs[e][w].revised => designs[e][w].scope = Scope(w, e)
  BY DEF SequentialInv, DesignInv
<1>15. \A e : Scope(v, e) = Scope(src, e)
  BY <1>5, <1>10 DEF Scope
<1>16. ASSUME NEW e \in Engines, v \in DOMAIN designs'[e], ~designs'[e][v].revised
       PROVE  designs'[e][v].scope = Scope(v, e)
  <2>1. CASE e \in es
    <3>1. src \in DOMAIN designs[e] /\ src \in Versions
      BY <1>4, <1>10, <1>11, <2>1 DEF DesignedOn
    <3> QED
      BY <1>12, <1>14, <1>15, <1>16, <2>1, <3>1
  <2>2. CASE e \notin es
    BY <1>4, <1>12, <1>14, <1>16, <2>2
  <2> QED
    BY <2>1, <2>2
<1>17. DesignInv'
  BY <1>3, <1>4, <1>12, <1>13, <1>16, DesignsWritten DEF SequentialInv
<1>18. Saved(ext)'
  <2>1. KeepsTo(ext.version)
    BY <1>8, <1>12, <1>13, KeepsBelow
  <2> QED
    BY <1>3, <1>6, <1>12, <2>1, ExtSaved DEF SequentialInv
<1>19. PICK r : r = [run EXCEPT !.status = "rolled_back", !.previous = run.version, !.version = v]
  OBVIOUS
<1>20. r \in Run /\ r.version = v /\ r.previous = src /\ r.status = "rolled_back"
  BY <1>4, <1>8, <1>10, <1>19 DEF Run
<1>21. AsBefore(r)'
  <2>1. asg'[v].owner = asg'[src].owner /\ asg'[v].pinned = asg'[src].pinned
    BY <1>3, <1>5, <1>10
  <2>2. ASSUME NEW e \in DesignedOn(src)', designs'[e][src].fit
        PROVE  e \in DesignedOn(v)' /\ designs'[e][v] = designs'[e][src]
    <3>1. e \in Engines /\ src \in DOMAIN designs'[e] /\ src # v
      BY <1>8, <1>10 DEF DesignedOn
    <3>2. src \in DOMAIN designs[e] /\ designs'[e][src] = designs[e][src]
      BY <1>13, <3>1 DEF WritesAt
    <3>3. e \in es
      BY <1>9, <1>10, <2>2, <3>1, <3>2 DEF Fit, DesignedOn
    <3> QED
      BY <1>12, <3>1, <3>2, <3>3 DEF DesignedOn
  <2> QED
    BY <1>20, <2>1, <2>2 DEF AsBefore
<1>22. Saved(r)'
  <2>1. r.version <= Effective' /\ r.version # 0 /\ r.previous < r.version
    BY <1>5, <1>6, <1>8, <1>10, <1>20
  <2>2. r.previous \in Versions' /\ asg'[r.version].source = "post_schema_routing"
    BY <1>3, <1>4, <1>5, <1>6, <1>10, <1>20
  <2> QED
    BY <1>20, <1>21, <2>1, <2>2 DEF Saved
<1>23. PICK f : f = [g EXCEPT !.run = r, !.pc = IF External(self) THEN "save" ELSE "raised"]
  OBVIOUS
<1>24. f.run = r /\ f.pc \in {"save", "raised"}
  BY <1>4, <1>23 DEF RouterFrame
<1>25. FrameHolds(f)'
  BY <1>3, <1>5, <1>20, <1>22, <1>24 DEF FrameHolds, AtRest, Underway
<1>26. router' = [router EXCEPT ![self] = f]
  BY <1>1, <1>2, <1>19, <1>23 DEF Restate, MyRouting
<1> QED
  BY <1>7, <1>17, <1>18, <1>25, <1>26, RoutingOf DEF SequentialInv

LEMMA KeepsAt ==
  ASSUME NEW n \in Nat, NEW m \in Nat, m <= n, WritesAt(n), Grow,
         \A e \in Engines : n \in DOMAIN designs[e] => designs'[e][n] = designs[e][n]
  PROVE  KeepsTo(m)
<1> SUFFICES ASSUME NEW e \in Engines, NEW v \in Version, v <= m
             PROVE  /\ v \in DOMAIN designs[e] => designs'[e][v] = designs[e][v]
                    /\ v < m /\ v \in DOMAIN designs'[e] => v \in DOMAIN designs[e]
  BY DEF KeepsTo, Version
<1>1. CASE v = n
  BY <1>1
<1>2. CASE v # n
  BY <1>2 DEF WritesAt
<1> QED
  BY <1>1, <1>2

(* The runs there are stay saved where the designs they restated do.       *)
LEMMA AllResting ==
  ASSUME Typed, Typed', SequentialInv, RoutersRest, asg' = asg, UNCHANGED routerVars,
         broken' = broken, Grow,
         \A run : Saved(run) /\ run \in Run /\ run.status = "rolled_back" => KeepsTo(run.version)
  PROVE  RoutingInv' /\ Saved(ext)'
<1>1. Appends /\ router' = router /\ ext' = ext
  BY AppendsSame DEF Typed, routerVars
<1>2. ext \in Run /\ Saved(ext)
  BY DEF Typed, RoutersTyped, RunTyped, SequentialInv
<1>3. Saved(ext)'
  BY <1>1, <1>2, ExtSaved
<1>4. ASSUME NEW p \in RouterProcs PROVE router[p].run \in Run /\ Saved(router[p].run)
  BY FrameNow DEF SequentialInv, RoutersRest, RouterRests, FrameHolds, AtRest, RouterFrame
<1>5. RoutingInv'
  BY <1>1, <1>4, RestingStay DEF SequentialInv
<1> QED
  BY <1>3, <1>5

LEMMA DesignerSequential ==
  ASSUME Typed, Typed', SequentialInv, Designer
  PROVE  SequentialInv'
<1>1. /\ RoutersRest /\ asg' = asg /\ chosen' = chosen /\ UNCHANGED routerVars /\ broken' = broken
  BY DEF Designer
<1>2. ChoiceInv'
  BY <1>1, ChoiceStays DEF SequentialInv
<1>3. PICK v : v = Effective
  OBVIOUS
<1>4. /\ v \in Versions /\ EnginesOf(v) \subseteq Engines /\ Versions = 1 .. v /\ v \in Nat
      /\ Versions \subseteq Version
  BY <1>3, VersionsAre DEF Typed, Version
<1>5. \A w \in Versions : \A e \in Engines :
         w \in DOMAIN designs[e] /\ ~designs[e][w].revised => designs[e][w].scope = Scope(w, e)
  BY DEF SequentialInv, DesignInv
<1>6. \A run : Saved(run) /\ run \in Run => run.version \in Nat /\ run.version <= v
  BY <1>3 DEF Saved, Run
<1>7. CASE \E e \in EnginesOf(v) \ DesignedOn(v) : DesignEngine(e, v)
  <2>1. PICK e \in EnginesOf(v) \ DesignedOn(v) : DesignEngine(e, v)
    BY <1>7
  <2>2. e \in Engines /\ v \notin DOMAIN designs[e]
    BY <1>4, <2>1 DEF DesignedOn
  <2>3. /\ Grow /\ v \in DOMAIN designs'[e] /\ designs'[e][v] = Designed(v, e)
        /\ \A d \in Engines : DOMAIN designs'[d] \subseteq DOMAIN designs[d] \cup {v}
        /\ \A d \in Engines \ {e} : designs'[d] = designs[d]
        /\ \A w \in DOMAIN designs[e] \ {v} : designs'[e][w] = designs[e][w]
    BY <1>4, <2>1, <2>2, DesignIs
  <2>4. WritesAt(v)
    BY <2>3 DEF WritesAt
  <2>5. \A d \in Engines : v \in DOMAIN designs'[d] /\ ~designs'[d][v].revised =>
           designs'[d][v].scope = Scope(v, d)
    <3>1. designs'[e][v].scope = Scope(v, e)
      BY <2>3 DEF Designed
    <3> QED
      BY <1>4, <1>5, <2>3, <3>1
  <2>6. DesignInv'
    BY <1>1, <1>4, <2>3, <2>4, <2>5, DesignsWritten DEF SequentialInv
  <2>7. \A d \in Engines : v \in DOMAIN designs[d] => designs'[d][v] = designs[d][v]
    BY <2>2, <2>3
  <2>8. \A run : Saved(run) /\ run \in Run => KeepsTo(run.version)
    BY <1>4, <1>6, <2>3, <2>4, <2>7, KeepsAt
  <2> QED
    BY <1>1, <1>2, <2>3, <2>6, <2>8, AllResting DEF SequentialInv
<1>8. CASE asg[v].source \in {"customer_gate", "auto_decided"} /\ Redispatch
  <2>1. PICK prev, es : /\ prev \in Versions /\ es \in SUBSET Carried(prev, v)
                        /\ prev < v /\ CopyDesigns(es, prev, v)
    BY <1>3, <1>8, RedispatchIs
  <2>2. es \in SUBSET Engines /\ es \subseteq DesignedOn(prev) /\ CopyDesigns(es, prev, v)
    BY <2>1 DEF Carried, DesignedOn
  <2>3. \A e \in es : Scope(prev, e) = Scope(v, e)
    BY <2>1 DEF Carried, DesignedOn, Unaffected, Affected
  <2>4. v \in Versions' /\ Versions' \subseteq Version
    BY <1>1, <1>4 DEF Versions
  <2>5. /\ Grow
        /\ \A e \in Engines : DOMAIN designs'[e] = IF e \in es THEN DOMAIN designs[e] \cup {v}
                                                 ELSE DOMAIN designs[e]
        /\ \A e \in es : designs'[e][v] = designs[e][prev]
        /\ \A e \in Engines : \A w \in DOMAIN designs[e] :
              e \notin es \/ w # v => designs'[e][w] = designs[e][w]
    <3>1. revisions' = revisions
      BY <1>8 DEF Redispatch
    <3> QED
      BY <2>2, <2>4, <3>1, CopyIs, SMTT(30)
  <2>6. WritesAt(v)
    BY <2>5 DEF WritesAt
  <2>7. ASSUME NEW e \in Engines, v \in DOMAIN designs'[e], ~designs'[e][v].revised
        PROVE  designs'[e][v].scope = Scope(v, e)
    <3>1. CASE e \in es
      <4>1. prev \in DOMAIN designs[e]
        BY <2>2, <3>1 DEF DesignedOn
      <4> QED
        BY <1>5, <2>1, <2>3, <2>5, <2>7, <3>1, <4>1
    <3>2. CASE e \notin es
      BY <1>4, <1>5, <2>5, <2>7, <3>2
    <3> QED
      BY <3>1, <3>2
  <2>8. DesignInv'
    BY <1>1, <1>4, <2>4, <2>5, <2>6, <2>7, DesignsWritten DEF SequentialInv
  <2>9. ASSUME NEW run, Saved(run), run \in Run, run.status = "rolled_back"
        PROVE  KeepsTo(run.version)
    <3>1. run.version # v
      BY <1>8, <2>9 DEF Saved
    <3>2. run.version \in Nat /\ run.version < v
      BY <1>4, <1>6, <2>9, <3>1
    <3> QED
      BY <1>4, <2>5, <2>6, <3>2, KeepsBelow
  <2> QED
    BY <1>1, <1>2, <2>5, <2>8, <2>9, AllResting DEF SequentialInv
<1> QED
  BY <1>3, <1>7, <1>8 DEF Designer

LEMMA ReviewerSequential ==
  ASSUME Typed, Typed', ~Overlap, SequentialInv, Reviewer
  PROVE  SequentialInv'
<1>1. /\ RoutersRest /\ asg' = asg /\ chosen' = chosen /\ UNCHANGED routerVars /\ broken' = broken
      /\ AllDesigned(Effective)
  BY DEF Reviewer
<1>2. PICK e \in EnginesOf(Effective) : Revise(e)
  BY DEF Reviewer
<1>3. ChoiceInv'
  BY <1>1, ChoiceStays DEF SequentialInv
<1>4. PICK v : v = Effective
  OBVIOUS
<1>5. /\ v \in Versions /\ EnginesOf(v) \subseteq Engines /\ Versions = 1 .. v /\ v \in Nat
      /\ Versions' = Versions /\ Effective' = Effective
  BY <1>1, <1>4, VersionsAre, AppendsSame DEF Typed
<1>6. PICK new : new = LatestDesign(e) + 1
  OBVIOUS
<1>7. e \in Engines /\ v \in DOMAIN designs[e]
  BY <1>1, <1>2, <1>4, <1>5 DEF AllDesigned, DesignedOn
<1>8. /\ Grow /\ LatestDesign(e) \in DOMAIN designs[e]
      /\ \A d \in Engines \ {e} : designs'[d] = designs[d]
      /\ DOMAIN designs'[e] = DOMAIN designs[e] \cup {new}
      /\ \A w \in DOMAIN designs[e] : designs'[e][w] = designs[e][w]
      /\ designs'[e][new].revised
  BY <1>6, <1>2, <1>7, RevisionIs
<1>9. /\ \A w \in DOMAIN designs[e] : w < new /\ w \in Int
      /\ new \in Nat
  <2>1. /\ \A w \in DOMAIN designs[e] : w <= LatestDesign(e) /\ w \in Nat
        /\ LatestDesign(e) \in Nat
    BY <1>7, <1>8, LatestIs DEF Typed, DesignsTyped
  <2> QED
    BY <1>6, <2>1
<1>10. v < new /\ new \notin Versions
  BY <1>5, <1>7, <1>9
<1>11. WritesAt(new)
  BY <1>8 DEF WritesAt
<1>12. DesignInv'
  <2>1. ASSUME NEW d \in Engines, new \in DOMAIN designs'[d], ~designs'[d][new].revised
        PROVE  new \in Versions /\ designs'[d][new].scope = Scope(new, d)
    <3>1. d # e
      BY <1>8, <2>1
    <3> QED
      BY <1>8, <2>1, <3>1 DEF SequentialInv, DesignInv
  <2> QED
    BY <1>1, <1>11, <2>1, DesignsWritten DEF SequentialInv
<1>13. \A run : Saved(run) /\ run \in Run => KeepsTo(run.version)
  <2> SUFFICES ASSUME NEW run, Saved(run), run \in Run PROVE KeepsTo(run.version)
    OBVIOUS
  <2>1. run.version \in Nat /\ run.version <= v
    BY <1>4 DEF Saved, Run
  <2>2. run.version < new
    BY <1>5, <1>9, <1>10, <2>1
  <2> QED
    BY <1>8, <1>9, <1>11, <2>1, <2>2, KeepsBelow
<1>14. RoutingInv' /\ Saved(ext)'
  BY <1>1, <1>8, <1>13, AllResting
<1> QED
  BY <1>3, <1>12, <1>14 DEF SequentialInv

LEMMA NextSequential ==
  ASSUME ~Overlap, OneRouter
  PROVE  Typed /\ Typed' /\ SequentialInv /\ [Next]_schemaVars => SequentialInv'
<1> SUFFICES ASSUME Typed, Typed', SequentialInv, [Next]_schemaVars PROVE SequentialInv'
  OBVIOUS
<1>1. CASE UNCHANGED schemaVars
  <2>1. /\ UNCHANGED <<asg, chosen, designVars>> /\ ext' = ext /\ router' = router
        /\ broken' = broken
    BY <1>1 DEF schemaVars, routerVars
  <2>2. DesignInv' /\ ChoiceInv' /\ Saved(ext)'
    BY <2>1, NothingWritten
  <2>3. ASSUME NEW p \in RouterProcs PROVE FrameHolds(router[p])'
    <3>1. PICK f : f = router[p]
      OBVIOUS
    <3>2. FrameHolds(f)
      BY <3>1, FrameNow DEF SequentialInv
    <3>3. CASE f.pc \in {"idle", "returned", "raised"}
      <4>1. PICK run : run = f.run
        OBVIOUS
      <4>2. Saved(run)
        BY <3>2, <3>3, <4>1 DEF FrameHolds, AtRest
      <4>3. Saved(run)'
        BY <2>1, <4>2, SavedSame
      <4> QED
        BY <2>1, <3>1, <3>2, <3>3, <4>1, <4>3 DEF FrameHolds, AtRest
    <3>4. CASE f.pc \notin {"idle", "returned", "raised"}
      <4>1. Underway(f)'
        BY <2>1, <3>2, <3>4, UnderwaySame DEF FrameHolds
      <4> QED
        BY <2>1, <3>1, <3>4, <4>1 DEF FrameHolds
    <3> QED
      BY <3>3, <3>4
  <2>4. RoutingInv'
    BY <2>3 DEF RoutingInv, FrameHolds, RouterRests
  <2> QED
    BY <2>2, <2>4 DEF SequentialInv
<1>2. CASE EditAssignment
  BY <1>2, EditSequential
<1>3. CASE Designer
  BY <1>3, DesignerSequential
<1>4. CASE Reviewer
  BY <1>4, ReviewerSequential
<1>5. ASSUME NEW p \in RouterProcs, Routing(p) PROVE SequentialInv'
  <2>1. CASE /\ broken' = broken
             /\ StartRouting(p) \/ ExternalStep(p, broken) \/ RollBackExternal(p)
    BY <2>1, BeginsSequential
  <2>2. CASE RouterStep(p) /\ broken' = broken
    BY <2>2, PassSequential, WriteRerouteSequential, CarrySequential, RedesignSequential,
       RollBackSequential, RestateSequential, EndsSequential DEF RouterStep
  <2>3. CASE RouterStops(p) /\ (broken => broken')
    BY <2>3, EndsSequential
  <2> QED
    BY <1>5, <2>1, <2>2, <2>3 DEF Routing
<1> QED
  BY <1>1, <1>2, <1>3, <1>4, <1>5 DEF Next

(* What is known of the run of every routing.                              *)
LEMMA RoutingsTraced ==
  ASSUME Typed, SequentialInv, NEW run \in Routings
  PROVE  run \in Run /\ Traced(run)
<1>1. CASE run = ext
  BY <1>1 DEF Routings, Typed, RoutersTyped, RunTyped, SequentialInv, Saved
<1>2. ASSUME NEW p \in RouterProcs, run = router[p].run
      PROVE  run \in Run /\ Traced(run)
  <2>1. router[p] \in RouterFrame /\ FrameHolds(router[p]) /\ run.status # "rolled_back"
    BY FrameNow DEF SequentialInv, Routings
  <2>2. run \in Run
    BY <1>2, <2>1 DEF RouterFrame
  <2>3. Traced(run)
    BY <1>2, <2>1 DEF FrameHolds, AtRest, Underway, Saved
  <2> QED
    BY <2>2, <2>3
<1> QED
  BY <1>1, <1>2 DEF Routings, MyRouting

LEMMA SequentialHolds ==
  Typed /\ SequentialInv =>
     /\ CustomerChoiceStands /\ DesignMatchesAssignment /\ CompleteIsDesigned /\ MovedOnce
     /\ CascadeBounded /\ RollbackRestates /\ WritesTogether
<1> SUFFICES ASSUME Typed, SequentialInv
             PROVE  /\ CustomerChoiceStands /\ DesignMatchesAssignment /\ CompleteIsDesigned
                    /\ MovedOnce /\ CascadeBounded /\ RollbackRestates /\ WritesTogether
  OBVIOUS
<1>1. CustomerChoiceStands
  BY DEF SequentialInv, ChoiceInv, Stands, CustomerChoiceStands
<1>2. CompleteIsDesigned
  <2> SUFFICES ASSUME ~broken
               PROVE  /\ \A p \in RouterProcs : AtRouter(p, "returned") => AllDesigned(MyRouting(p).version)
                      /\ ext.status = "complete" /\ ext # NoRun => AllDesigned(ext.version)
    BY DEF CompleteIsDesigned
  <2>1. ASSUME NEW p \in RouterProcs, AtRouter(p, "returned")
        PROVE  AllDesigned(MyRouting(p).version)
    <3>1. AtRest(router[p]) /\ router[p].pc = "returned"
      BY <2>1, FrameNow DEF AtRouter, SequentialInv, FrameHolds
    <3> QED
      BY <3>1 DEF AtRest, Saved, Covered, AllDesigned, MyRouting
  <2>2. ext.status = "complete" /\ ext # NoRun => AllDesigned(ext.version)
    BY DEF SequentialInv, Saved, Covered, AllDesigned
  <2> QED
    BY <2>1, <2>2
<1>3. \A run \in Routings : IsFiniteSet(Rerouted(run)) /\ Cardinality(Rerouted(run)) <= MaxDepth
  <2> SUFFICES ASSUME NEW run \in Routings
               PROVE  IsFiniteSet(Rerouted(run)) /\ Cardinality(Rerouted(run)) <= MaxDepth
    OBVIOUS
  <2>1. /\ run.start \in Nat /\ run.version \in Nat /\ run.depth \in Nat
        /\ run.start <= run.version /\ run.version <= run.start + run.depth
        /\ run.depth <= MaxDepth /\ Versions = 1 .. Effective /\ Effective \in Nat
    BY RoutingsTraced, VersionsAre DEF Run, Traced, Typed
  <2>2. PICK a, b : a = run.start + 1 /\ b = run.version
    OBVIOUS
  <2>3. Rerouted(run) \in SUBSET (a .. b) /\ a \in Int /\ b \in Int
    BY <2>1, <2>2 DEF Rerouted
  <2>4. IsFiniteSet(a .. b) /\ Cardinality(a .. b) = IF a > b THEN 0 ELSE b - a + 1
    BY <2>3, FS_Interval
  <2>5. IsFiniteSet(Rerouted(run)) /\ Cardinality(Rerouted(run)) <= Cardinality(a .. b)
    BY <2>3, <2>4, FS_Subset
  <2>6. Cardinality(Rerouted(run)) \in Nat
    BY <2>5, FS_CardinalityType
  <2> QED
    BY <2>1, <2>2, <2>4, <2>5, <2>6 DEF MaxDepth
<1>4. CascadeBounded
  BY <1>3 DEF CascadeBounded
<1>5. MovedOnce
  <2> SUFFICES ASSUME NEW run \in Routings, NEW q \in Queries
               PROVE  Cardinality({v \in Rerouted(run) : Moves(v, q)}) <= 1
    BY DEF MovedOnce, Moves
  <2>1. PICK S : S = {v \in Rerouted(run) : Moves(v, q)}
    OBVIOUS
  <2>2. \A x, y \in S : x = y
    BY <2>1, RoutingsTraced DEF Traced
  <2>3. IsFiniteSet(S)
    BY <1>3, <2>1, FS_Subset
  <2> QED
    BY <2>1, <2>2, <2>3, AtMostOne
<1>6. RollbackRestates
  <2>1. ASSUME NEW p \in RouterProcs, AtRouter(p, "raised") PROVE AsBefore(MyRouting(p))
    <3>1. AtRest(router[p]) /\ router[p].pc = "raised"
      BY <2>1, FrameNow DEF AtRouter, SequentialInv, FrameHolds
    <3> QED
      BY <3>1 DEF AtRest, Saved, MyRouting
  <2>2. ext.status = "rolled_back" => AsBefore(ext)
    BY DEF SequentialInv, Saved
  <2> QED
    BY <2>1, <2>2 DEF RollbackRestates
<1>7. WritesTogether
  <2>1. \A v \in Versions : asg[v].owner \in [Queries -> Engines] /\ Together(asg[v].owner)
    BY VersionsAre DEF SequentialInv, ChoiceInv, Typed, Assignment
  <2> QED
    BY <2>1, TogetherIs DEF WritesTogether
<1>8. DesignMatchesAssignment
  BY DEF SequentialInv, DesignInv, DesignMatchesAssignment, DesignedOn
<1> QED
  BY <1>1, <1>2, <1>4, <1>5, <1>6, <1>7, <1>8

-----------------------------------------------------------------------------
(***************************************************************************)
(* What holds of it                                                        *)
(***************************************************************************)

LEMMA SequentialInvariant ==
  ASSUME ~Overlap, OneRouter
  PROVE  Spec => [](Typed /\ SequentialInv)
<1>1. Init => Typed /\ SequentialInv
  BY InitTyped, InitSequential
<1>2. Typed /\ SequentialInv /\ [Next]_schemaVars => Typed' /\ SequentialInv'
  BY NextTyped, NextSequential
<1> QED
  BY <1>1, <1>2, PTL DEF Spec

(* Whatever a routing moves, rolls back or is stopped in, the customer's   *)
(* picks stand in the effective version until they pick again.             *)
THEOREM RoutingKeepsPicks ==
  ASSUME ~Overlap, OneRouter
  PROVE  Spec => []CustomerChoiceStands
  BY SequentialInvariant, SequentialHolds, PTL

(* A design kept under a version serves what that version gives its        *)
(* engine, whoever wrote it: a designer, a routing that carries it         *)
(* forward, a rollback that restates it, a redispatch.                     *)
THEOREM DesignsMatch ==
  ASSUME ~Overlap, OneRouter
  PROVE  Spec => []DesignMatchesAssignment
  BY SequentialInvariant, SequentialHolds, PTL

(* A routing says it is complete only where every engine of its version    *)
(* has a design, unless one was stopped between a version and its designs. *)
THEOREM CompleteMeansDesigned ==
  ASSUME ~Overlap, OneRouter
  PROVE  Spec => []CompleteIsDesigned
  BY SequentialInvariant, SequentialHolds, PTL

(* A routing moves a query once at most, over all its passes and calls.    *)
THEOREM QueriesMoveOnce ==
  ASSUME ~Overlap, OneRouter
  PROVE  Spec => []MovedOnce
  BY SequentialInvariant, SequentialHolds, PTL

(* A routing writes two versions at most, whatever the designs flag.       *)
THEOREM CascadesEnd ==
  ASSUME ~Overlap, OneRouter
  PROVE  Spec => []CascadeBounded
  BY SequentialInvariant, SequentialHolds, PTL

(* A rolled back routing leaves the assignment and the designs that pass   *)
(* their contract as they were, and nothing written later undoes it.       *)
THEOREM RollbacksRestate ==
  ASSUME ~Overlap, OneRouter
  PROVE  Spec => []RollbackRestates
  BY SequentialInvariant, SequentialHolds, PTL

(* No reroute splits the writes of a table.                                *)
THEOREM TablesStayTogether ==
  ASSUME ~Overlap, OneRouter
  PROVE  Spec => []WritesTogether
  BY SequentialInvariant, SequentialHolds, PTL
=============================================================================
