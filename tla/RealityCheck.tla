---------------------------- MODULE RealityCheck ----------------------------
(***************************************************************************)
(* The reality check (agents/referee/reality_check_handler.py): once per   *)
(* lineage it may consolidate the assignment into a new version, and it    *)
(* leaves a record of the run.  In external mode a first run leaves a      *)
(* preview and a request for the model, and a second one finalizes it.     *)
(*                                                                         *)
(* The record is written before the version it announces, and the checks   *)
(* on the version come in between.                                         *)
(***************************************************************************)
EXTENDS AssignmentStore, Sequences

CONSTANTS
    CheckProcs,   \* processes that run reality checks
    MaxChecks     \* bound: runs that get to write

ASSUME CheckAssumption == MaxChecks \in Nat

VARIABLES
    rc,       \* what each process is doing
    rcOut,    \* reality-check/output.json
    rcRec,    \* version -> the run in reality-check/v<n>/output.json
    rcMark,   \* the status in reality-check/awaiting_llm.json
    checks    \* history: the runs, in the order they got to write

rcVars == <<rc, rcOut, rcRec, rcMark, checks>>

RunId == 1 .. MaxChecks

NoOut == [run |-> 0, source |-> 0, wrote |-> 0, consolidated |-> FALSE]
Out == [run : RunId, source : Version, wrote : 0 .. MaxVersion, consolidated : BOOLEAN]
          \cup {NoOut}

CheckFrame ==
    [pc : {"idle", "request", "mark", "keep", "output", "record", "settle", "revise"},
     run : 0 .. MaxChecks, input : 0 .. MaxVersion, wrote : 0 .. MaxVersion, draft : Draft]

CheckIdle == [pc |-> "idle", run |-> 0, input |-> 0, wrote |-> 0, draft |-> NoDraft]

(* A run: how it was asked for, what it checked and wrote, how it ended.   *)
(* One that changes nothing is done with its output, one that writes a     *)
(* version with that.  It is broken if it stops in between, or if it       *)
(* leaves its output without a record under a marker that hides it.        *)
CheckRun == [forced : BOOLEAN, external : BOOLEAN, input : Version, wrote : 0 .. MaxVersion,
             end : {"open", "done", "stopped", "broken"}]

InCheck(self, pc) == rc[self].pc = pc
CheckGoto(self, pc) == rc' = [rc EXCEPT ![self].pc = pc]
CheckEnd(self) == rc' = [rc EXCEPT ![self] = CheckIdle]
RunEnds(self, how) == checks' = [checks EXCEPT ![rc[self].run].end = how]

MyRun(self) == checks[rc[self].run]
Consolidates(self) == rc[self].draft # NoDraft

-----------------------------------------------------------------------------
(* _completed_reality_check_output: a preview is not a completed run.      *)
Completed == IF rcMark = "awaiting" THEN NoOut ELSE rcOut

(* reality_check_record_version                                            *)
RecordVersion(out) == IF out.wrote # 0 THEN out.wrote ELSE out.source

(* reality_check_run_for_lineage                                           *)
CheckedUnchanged(v) ==
    /\ Completed # NoOut
    /\ Completed.source = v
    /\ Completed.wrote = 0
    /\ ~Completed.consolidated

RunForLineage ==
    \E v \in Lineage(Effective) : IsRealityCheckProduced(v) \/ CheckedUnchanged(v)

(* resolve_reality_check_input_version; 1 where there is none, which then  *)
(* fails to be read.                                                       *)
InputVersion ==
    LET inputs == {v \in Versions : ~IsRealityCheckProduced(v)}
    IN  IF inputs = {} THEN 1 ELSE Max(inputs)

(* reality_check_output_candidates and read_reality_check_output: the run  *)
(* a deliverable made for version v shows, 0 for none.                     *)
ShownRun(v) ==
    LET walked == Lineage(v)
        produced == {w \in walked : IsRealityCheckProduced(w)}
        kept == walked \cap DOMAIN rcRec
        key == IF produced # {} THEN FirstOf(v, produced)
               ELSE IF kept # {} THEN FirstOf(v, kept) ELSE 0
    IN  IF key \in DOMAIN rcRec THEN rcRec[key]
        ELSE IF rcOut # NoOut /\ RecordVersion(rcOut) \in walked THEN rcOut.run
        ELSE 0

(* keep_completed_reality_check_output                                     *)
KeepCompleted ==
    rcRec' = IF Completed # NoOut /\ RecordVersion(Completed) \notin DOMAIN rcRec
             THEN Put(rcRec, RecordVersion(Completed), Completed.run)
             ELSE rcRec

(* run_reality_check_deterministic with what the model adds to it: the     *)
(* queries it moves are moved with what is placed with them, and no query  *)
(* the customer pinned is.                                                 *)
Moved(v, queries, e) ==
    [source |-> "reality_check", prev |-> v, pinned |-> asg[v].pinned,
     owner |-> MoveTo(asg[v].owner, queries, e)]

MovesOf(v, free) ==
    {a \in {Moved(v, queries, e) : queries \in {UNION units : units \in SUBSET free},
                                  e \in Engines} : a.owner # asg[v].owner}

ConsolidatedMovingPins(v) ==    \* a mutant of the next: pinned queries are not held out
    MovesOf(v, {UnitOf(q) : q \in Queries})

Consolidated(v) ==
    MovesOf(v, {UnitOf(q) : q \in Queries} \cap SUBSET (Queries \ asg[v].pinned))

-----------------------------------------------------------------------------
(* A run gets past its check of the lineage, reads its input and works on  *)
(* it.  With an explicit version it always runs.  A preview writes no      *)
(* version, so its moves are left out.                                     *)
StartCheck(self, external) ==
    /\ InCheck(self, "idle")
    /\ Len(checks) < MaxChecks
    /\ \E forced \in BOOLEAN :
       \E input \in (IF forced THEN Versions ELSE {InputVersion} \cap Versions) :
          /\ ~forced => ~RunForLineage
          /\ checks' = Append(checks, [forced |-> forced, external |-> external,
                                       input |-> input, wrote |-> 0, end |-> "open"])
          /\ \E draft \in {NoDraft} \cup (IF external THEN {} ELSE Consolidated(input)) :
                rc' = [rc EXCEPT ![self] =
                   [pc |-> IF external THEN "request" ELSE "keep", run |-> Len(checks) + 1,
                    input |-> input, wrote |-> 0, draft |-> draft]]
    /\ UNCHANGED <<asg, chosen, rcOut, rcRec, rcMark>>

(* run_reality_check_handler with llm_mode none or bedrock, and            *)
(* finalize_reality_check, which resolves its input again.                 *)
RunCheck(self) == StartCheck(self, FALSE)

(* llm_mode external                                                       *)
PrepareCheck(self) == StartCheck(self, TRUE)

(* The request for the model, and the completed run kept, as the marker is *)
(* about to hide it.                                                       *)
RequestUnmarked(self) ==    \* a mutant of the next: the marker is forgotten
    /\ InCheck(self, "request")
    /\ KeepCompleted
    /\ CheckGoto(self, "keep")
    /\ UNCHANGED <<asg, chosen, rcOut, rcMark, checks>>

Request(self) ==
    /\ InCheck(self, "request")
    /\ KeepCompleted
    /\ CheckGoto(self, "mark")
    /\ UNCHANGED <<asg, chosen, rcOut, rcMark, checks>>

MarkAwaiting(self) ==
    /\ InCheck(self, "mark")
    /\ rcMark' = "awaiting"
    /\ CheckGoto(self, "keep")
    /\ UNCHANGED <<asg, chosen, rcOut, rcRec, checks>>

(* write_reality_check_result: the version it will write is numbered, ...  *)
NumberAfterInput(self) ==    \* a mutant of the next: always the version after its input
    IF Consolidates(self) THEN rc[self].input + 1 ELSE 0

NumberToWrite(self) ==
    IF Consolidates(self) THEN Max({NextVersion, rc[self].input + 1}) ELSE 0

Keep(self) ==
    /\ InCheck(self, "keep")
    /\ NumberToWrite(self) <= MaxVersion
    /\ KeepCompleted
    /\ rc' = [rc EXCEPT ![self].pc = "output", ![self].wrote = NumberToWrite(self)]
    /\ checks' = [checks EXCEPT ![rc[self].run].wrote = NumberToWrite(self)]
    /\ UNCHANGED <<asg, chosen, rcOut, rcMark>>

(* ... output.json written (a preview in external mode, which ends there), *)
Output(self) ==
    /\ InCheck(self, "output")
    /\ \E consolidated \in IF MyRun(self).external THEN BOOLEAN ELSE {Consolidates(self)} :
          rcOut' = [run |-> rc[self].run, source |-> rc[self].input, wrote |-> rc[self].wrote,
                    consolidated |-> consolidated]
    /\ rc' = [rc EXCEPT ![self] =
                 IF MyRun(self).external THEN CheckIdle ELSE [@ EXCEPT !.pc = "record"]]
    /\ IF rc[self].wrote = 0 THEN RunEnds(self, "done") ELSE UNCHANGED checks
    /\ UNCHANGED <<asg, chosen, rcRec, rcMark>>

RecordRunUnderInput(self) ==    \* a mutant of RecordRun: kept under the version it checked
    /\ InCheck(self, "record")
    /\ rcRec' = IF rc[self].input \in DOMAIN rcRec THEN rcRec
                ELSE Put(rcRec, rc[self].input, rc[self].run)
    /\ CheckGoto(self, "settle")
    /\ UNCHANGED <<asg, chosen, rcOut, rcMark, checks>>

(* ... then the record, unless there is one, ...                           *)
RecordRun(self) ==
    LET key == IF rc[self].wrote # 0 THEN rc[self].wrote ELSE rc[self].input
    IN  /\ InCheck(self, "record")
        /\ rcRec' = IF key \in DOMAIN rcRec THEN rcRec ELSE Put(rcRec, key, rc[self].run)
        /\ CheckGoto(self, "settle")
        /\ UNCHANGED <<asg, chosen, rcOut, rcMark, checks>>

(* ... the marker, if there is one, and the run that changed nothing is    *)
(* over.                                                                   *)
Settle(self) ==
    /\ InCheck(self, "settle")
    /\ rcMark' = IF rcMark = "none" THEN "none" ELSE "finalized"
    /\ IF rc[self].wrote = 0 THEN CheckEnd(self) ELSE CheckGoto(self, "revise")
    /\ UNCHANGED <<asg, chosen, rcOut, rcRec, checks>>

(* The version, once it has passed its checks.                             *)
Revise(self) ==
    /\ InCheck(self, "revise")
    /\ WriteAssignment(rc[self].wrote, rc[self].draft)
    /\ chosen' = IF MyRun(self).forced THEN PicksOf(rc[self].draft) ELSE chosen
    /\ CheckEnd(self)
    /\ RunEnds(self, "done")
    /\ UNCHANGED <<rcOut, rcRec, rcMark>>

(* A finalize that has written its output, and neither the record nor the  *)
(* marker, which still says that the output is a preview.                  *)
Hidden(self) == InCheck(self, "record") /\ rcMark = "awaiting"

(* The model call or a check on the version raises, or the process stops.  *)
CheckStops(self) ==
    /\ ~InCheck(self, "idle")
    /\ CheckEnd(self)
    /\ CASE MyRun(self).end = "done" /\ ~Hidden(self) -> UNCHANGED checks
         [] rc[self].pc \in {"record", "settle", "revise"} -> RunEnds(self, "broken")
         [] OTHER -> RunEnds(self, "stopped")
    /\ UNCHANGED <<asg, chosen, rcOut, rcRec, rcMark>>
=============================================================================
