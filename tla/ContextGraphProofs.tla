------------------------- MODULE ContextGraphProofs -------------------------
(***************************************************************************)
(* Theorems about the context graph of a job, for any threads, runs of the *)
(* command line and bounds.  The invariant says who may touch which file   *)
(* at which step, and what the files, the graphs in hand and what is known *)
(* of the artifacts hold meanwhile; that nothing is ever lost from the     *)
(* API's file (Held) is shown of each step along with it.                  *)
(***************************************************************************)
EXTENDS ContextGraph, TLAPS

-----------------------------------------------------------------------------
(* Where a thread or a run may be: asking for the version or the digest,   *)
(* with the API's file to itself, building a graph.                        *)
Asking == {"version", "keepVersion", "digest", "keepDigest"}
Own == {"local", "downloaded", "adopt", "drop", "build", "gather", "finish", "place",
        "upload", "uploaded", "done"}
Building == {"build", "gather", "finish", "place"}
ThreadPcs == {"idle", "lease", "leased", "refreshLock", "seize"} \cup Asking \cup Own
CliPcs == {"idle", "version", "digest", "api", "openApi", "readApi", "share", "exclude",
           "reshare", "readCopy"} \cup Building

ProcState == [pc : Pcs, want : {"read", "compare", "recheck"},
              mode : {"prepare", "refresh", "rebuild"}, seen : Known, goal : Known,
              refreshed : BOOLEAN, digest : 0 .. MaxInputs,
              met : SUBSET (1 .. MaxInputs), graph : Content,
              view : Content \cup {Theirs}]

Types ==
    /\ inputs \in Known /\ 1 <= inputs.version /\ inputs.version <= inputs.digest
    /\ known \in Known
    /\ file \in [api : Content, cli : Content]
    /\ open \subseteq {Job} /\ readers \in [{Job} -> SUBSET Threads]
    /\ owner \in [{Job} -> Threads \cup {Nobody}]
    /\ backoff \in BOOLEAN /\ refreshing \in Threads \cup {Nobody}
    /\ shared \subseteq CliProcs /\ exclusive \in CliProcs \cup {Nobody}
    /\ proc \in [Procs -> ProcState]
    /\ count \in [{"failures", "requests", "cliRuns", "stops"} -> Nat]

Places ==
    /\ \A t \in Threads : proc[t].pc \in ThreadPcs /\ proc[t].view = Absent
    /\ \A p \in CliProcs : proc[p].pc \in CliPcs
    /\ \A p \in Procs : At(p, "idle") => proc[p] = Idle

(* The API's file: leased by those who read it, or owned by one who is at  *)
(* a step of its own on it, with no handle open.                           *)
Exclusion ==
    /\ \A t \in Threads : t \in readers[Job] <=> At(t, "leased")
    /\ \A t \in Threads : At(t, "leased") => open = {Job}
    /\ owner[Job] # Nobody => readers[Job] = {} /\ open = {}
    /\ \A t \in Threads : owner[Job] = t => proc[t].pc \in Own \cup Asking
    /\ \A t \in Threads : proc[t].pc \in Own => owner[Job] = t
    /\ \A t \in Threads : proc[t].pc \in Asking =>
          IF owner[Job] = t THEN proc[t].mode = "prepare" ELSE proc[t].want = "compare"

(* The copy of the command line: read by any number of runs or built by    *)
(* one.                                                                    *)
CopyLock ==
    /\ \A p \in CliProcs : p \in shared <=> At(p, "readCopy")
    /\ \A p \in CliProcs : exclusive = p <=> proc[p].pc \in Building
    /\ exclusive # Nobody => shared = {}

(* Who holds the refresh lock has yet to find out, or to rebuild.          *)
RefreshLock ==
    /\ \A t \in Threads : refreshing = t => proc[t].want = "recheck"
    /\ \A t \in Threads : proc[t].mode = "rebuild" =>
          proc[t].want = "read" /\ proc[t].pc \in Own \cup {"seize"}
    /\ \A t \in Threads : At(t, "seize") => proc[t].mode # "prepare"

(* What the API's file holds while a handle is open on it, and at each     *)
(* step of its owner; the owner has the graph in hand while the file is    *)
(* torn, and a thread that has refreshed it need not look again.           *)
Carries == {"downloaded", "place", "upload", "uploaded", "done"}
Whole ==
    /\ \A p \in Procs : At(p, "place") => Readable(proc[p].graph)
    /\ \A t \in Threads :
       /\ proc[t].pc \notin Carries => proc[t].graph = Absent
       /\ proc[t].pc \in {"drop", "upload"} => Stamped(file.api)
       /\ proc[t].pc \in {"upload", "uploaded"} => Stamped(proc[t].graph)
       /\ proc[t].pc \in {"downloaded", "uploaded"} => file.api = Torn
       /\ At(t, "done") => Readable(file.api)
       /\ proc[t].refreshed => Readable(Holds)
    /\ open = {Job} => Readable(file.api)

(* A stamp never promises more than was read: the artifacts were read      *)
(* after the digest was taken, and neither comes from the future.          *)
Honest(g) ==
    Stamped(g) => /\ g.version <= inputs.version
                  /\ g.read # {} /\ g.read \subseteq g.digest .. inputs.digest
Dated ==
    /\ Honest(file.api) /\ Honest(file.cli)
    /\ \A p \in Procs :
       /\ Honest(proc[p].graph)
       /\ proc[p].met \subseteq proc[p].digest .. inputs.digest
       /\ ~At(p, "finish") => proc[p].met = {}
       /\ proc[p].digest <= inputs.digest

UpTo(k) == k.version <= inputs.version /\ k.digest <= inputs.digest
Learnt == UpTo(known) /\ \A p \in Procs : UpTo(proc[p].seen) /\ UpTo(proc[p].goal)

(* As long as the store answers, every graph that is built is stamped.     *)
NoFailure == count.failures = 0
StampsAll ==
    NoFailure =>
    /\ ~backoff
    /\ file.api # Partial /\ file.cli \in Graph \cup {Absent}
    /\ \A p \in Procs :
       /\ proc[p].graph # Partial
       /\ proc[p].pc \in {"gather", "finish"} => proc[p].digest # 0
       /\ At(p, "finish") => proc[p].met # {}

(* ... and a run that waits to read the copy will not find it older than   *)
(* what the run has seen, whoever builds it meanwhile.                     *)
AtLeast(g, k) == Stamped(g) /\ k.version <= g.version /\ k.digest <= g.digest
CopyServes ==
    NoFailure =>
    /\ \A p, q \in CliProcs : At(p, "reshare") \/ p = q =>
         /\ proc[q].pc \in {"gather", "finish"} => proc[p].seen.digest <= proc[q].digest
         /\ At(q, "place") => AtLeast(proc[q].graph, proc[p].seen)
    /\ \A p \in CliProcs :
         /\ At(p, "reshare") => file.cli = Absent \/ AtLeast(file.cli, proc[p].seen)
         /\ At(p, "readCopy") => AtLeast(proc[p].view, proc[p].seen)

NoCopy ==
    count.cliRuns = 0 =>
       /\ file.cli = Absent /\ \A p \in CliProcs : At(p, "idle")
       /\ \A t \in Threads : ~At(t, "drop")

(* ... and where there is no copy to adopt, the API's file only gets newer, *)
(* and is as new as what a thread has seen that comes to read it.          *)
ApiServes ==
    NoFailure /\ count.cliRuns = 0 =>
    \A t \in Threads :
      /\ proc[t].pc \in {"gather", "finish"} =>
            /\ proc[t].seen.digest <= proc[t].digest
            /\ Stamped(file.api) => file.api.digest <= proc[t].digest
      /\ proc[t].pc \in {"place", "upload", "uploaded"} => AtLeast(proc[t].graph, proc[t].seen)
      /\ At(t, "place") /\ Stamped(file.api) => AtLeast(proc[t].graph, file.api)
      /\ At(t, "upload") => proc[t].graph = file.api
      /\ At(t, "done") /\ proc[t].mode = "refresh" => AtLeast(file.api, proc[t].seen)
      /\ proc[t].want = "read" => proc[t].seen = Unknown \/ AtLeast(Holds, proc[t].seen)

Inv == /\ Types /\ Places /\ Exclusion /\ CopyLock /\ RefreshLock /\ Whole /\ Dated /\ Learnt
       /\ StampsAll /\ CopyServes /\ NoCopy /\ ApiServes

-----------------------------------------------------------------------------
(* What a step of one process changes of its record, and what it keeps.    *)
Alone(p) == proc' \in [Procs -> ProcState] /\ \A q \in Procs : q # p => proc'[q] = proc[q]
SameRole(p) == proc'[p].want = proc[p].want /\ proc'[p].mode = proc[p].mode
               /\ proc'[p].refreshed = proc[p].refreshed
SameLearnt(p) == proc'[p].seen = proc[p].seen /\ proc'[p].goal = proc[p].goal
SameBuild(p) == proc'[p].digest = proc[p].digest /\ proc'[p].met = proc[p].met
SameGraph(p) == proc'[p].graph = proc[p].graph
SameView(p) == proc'[p].view = proc[p].view

USE GraphAssumption, ContentAssumption
USE DEF At

LEMMA Contents == {Absent, Torn, Partial} \subseteq Content /\ Graph \subseteq Content /\ Unknown \in Known
                  /\ 0 \in 0 .. MaxInputs /\ {} \in SUBSET (1 .. MaxInputs)
  BY DEF Content, Unknown, Known

LEMMA BecomesStep ==
  ASSUME Types, NEW p \in Procs, NEW r \in ProcState, Becomes(p, r)
  PROVE  Alone(p) /\ proc'[p] = r
  BY DEF Types, Becomes, Alone

LEMMA OfProc ==
  ASSUME Types, NEW p \in Procs PROVE proc[p] \in ProcState
  BY DEF Types

LEMMA GotoStep ==
  ASSUME Types, NEW p \in Procs, NEW pc \in Pcs, Goto(p, pc)
  PROVE  /\ Alone(p) /\ proc'[p].pc = pc /\ SameRole(p) /\ SameLearnt(p) /\ SameBuild(p)
         /\ SameGraph(p) /\ SameView(p)
<1> DEFINE r == [proc[p] EXCEPT !.pc = pc]
<1>1. /\ r \in ProcState /\ r.pc = pc /\ r.want = proc[p].want /\ r.mode = proc[p].mode
      /\ r.refreshed = proc[p].refreshed /\ r.seen = proc[p].seen /\ r.goal = proc[p].goal
      /\ r.digest = proc[p].digest /\ r.met = proc[p].met /\ r.graph = proc[p].graph
      /\ r.view = proc[p].view
  BY OfProc, Contents DEF ProcState
<1>2. Becomes(p, r)
  BY DEF Goto
<1> HIDE DEF r
<1> QED BY <1>1, <1>2, BecomesStep DEF SameRole, SameLearnt, SameBuild, SameGraph, SameView

LEMMA GoesStep ==
  ASSUME Types, NEW p \in Procs, NEW pc \in Pcs, NEW mode \in {"prepare", "refresh", "rebuild"},
         Goes(p, pc, mode)
  PROVE  /\ Alone(p) /\ proc'[p].pc = pc /\ proc'[p].mode = mode /\ proc'[p].want = proc[p].want
         /\ proc'[p].refreshed = proc[p].refreshed /\ SameLearnt(p) /\ SameBuild(p) /\ SameGraph(p)
         /\ SameView(p)
<1> DEFINE r == [proc[p] EXCEPT !.pc = pc, !.mode = mode]
<1>1. /\ r \in ProcState /\ r.pc = pc /\ r.mode = mode /\ r.want = proc[p].want
      /\ r.refreshed = proc[p].refreshed /\ r.seen = proc[p].seen /\ r.goal = proc[p].goal
      /\ r.digest = proc[p].digest /\ r.met = proc[p].met /\ r.graph = proc[p].graph
      /\ r.view = proc[p].view
  BY OfProc, Contents DEF ProcState
<1>2. Becomes(p, r)
  BY DEF Goes
<1> HIDE DEF r
<1> QED BY <1>1, <1>2, BecomesStep DEF SameRole, SameLearnt, SameBuild, SameGraph, SameView

LEMMA KeepsStep ==
  ASSUME Types, NEW p \in Procs, NEW pc \in Pcs, NEW g \in Content, Keeps(p, pc, g)
  PROVE  /\ Alone(p) /\ proc'[p].pc = pc /\ proc'[p].graph = g /\ SameRole(p) /\ SameLearnt(p)
         /\ SameBuild(p) /\ SameView(p)
<1> DEFINE r == [proc[p] EXCEPT !.pc = pc, !.graph = g]
<1>1. /\ r \in ProcState /\ r.pc = pc /\ r.graph = g /\ r.want = proc[p].want
      /\ r.mode = proc[p].mode /\ r.refreshed = proc[p].refreshed /\ r.seen = proc[p].seen
      /\ r.goal = proc[p].goal /\ r.digest = proc[p].digest /\ r.met = proc[p].met
      /\ r.view = proc[p].view
  BY OfProc, Contents DEF ProcState
<1>2. Becomes(p, r)
  BY DEF Keeps
<1> HIDE DEF r
<1> QED BY <1>1, <1>2, BecomesStep DEF SameRole, SameLearnt, SameBuild, SameGraph, SameView

LEMMA OpensStep ==
  ASSUME Types, NEW p \in Procs, NEW pc \in Pcs, NEW view \in Content \cup {Theirs},
         Opens(p, pc, view)
  PROVE  /\ Alone(p) /\ proc'[p].pc = pc /\ proc'[p].view = view /\ SameRole(p) /\ SameLearnt(p)
         /\ SameBuild(p) /\ SameGraph(p)
<1> DEFINE r == [proc[p] EXCEPT !.pc = pc, !.view = view]
<1>1. /\ r \in ProcState /\ r.pc = pc /\ r.view = view /\ r.want = proc[p].want
      /\ r.mode = proc[p].mode /\ r.refreshed = proc[p].refreshed /\ r.seen = proc[p].seen
      /\ r.goal = proc[p].goal /\ r.digest = proc[p].digest /\ r.met = proc[p].met
      /\ r.graph = proc[p].graph
  BY OfProc, Contents DEF ProcState
<1>2. Becomes(p, r)
  BY DEF Opens
<1> HIDE DEF r
<1> QED BY <1>1, <1>2, BecomesStep DEF SameRole, SameLearnt, SameBuild, SameGraph, SameView

LEMMA WantsStep ==
  ASSUME Types, NEW p \in Procs, NEW pc \in Pcs, NEW want \in {"read", "compare", "recheck"},
         Wants(p, pc, want)
  PROVE  /\ Alone(p) /\ proc'[p].pc = pc /\ proc'[p].want = want /\ proc'[p].mode = proc[p].mode
         /\ proc'[p].refreshed = proc[p].refreshed /\ SameLearnt(p) /\ SameBuild(p) /\ SameGraph(p)
         /\ SameView(p)
<1> DEFINE r == [proc[p] EXCEPT !.pc = pc, !.want = want]
<1>1. /\ r \in ProcState /\ r.pc = pc /\ r.want = want /\ r.mode = proc[p].mode
      /\ r.refreshed = proc[p].refreshed /\ r.seen = proc[p].seen /\ r.goal = proc[p].goal
      /\ r.digest = proc[p].digest /\ r.met = proc[p].met /\ r.graph = proc[p].graph
      /\ r.view = proc[p].view
  BY OfProc, Contents DEF ProcState
<1>2. Becomes(p, r)
  BY DEF Wants
<1> HIDE DEF r
<1> QED BY <1>1, <1>2, BecomesStep DEF SameRole, SameLearnt, SameBuild, SameGraph, SameView

LEMMA DigestsStep ==
  ASSUME Types, NEW p \in Procs, "gather" \in Pcs, NEW digest \in 0 .. MaxInputs, Digests(p, digest)
  PROVE  /\ Alone(p) /\ proc'[p].pc = "gather" /\ proc'[p].digest = digest /\ SameRole(p)
         /\ SameLearnt(p) /\ proc'[p].met = proc[p].met /\ SameGraph(p) /\ SameView(p)
<1> DEFINE r == [proc[p] EXCEPT !.pc = "gather", !.digest = digest]
<1>1. /\ r \in ProcState /\ r.pc = "gather" /\ r.digest = digest /\ r.want = proc[p].want
      /\ r.mode = proc[p].mode /\ r.refreshed = proc[p].refreshed /\ r.seen = proc[p].seen
      /\ r.goal = proc[p].goal /\ r.met = proc[p].met /\ r.graph = proc[p].graph
      /\ r.view = proc[p].view
  BY OfProc, Contents DEF ProcState
<1>2. Becomes(p, r)
  BY DEF Digests
<1> HIDE DEF r
<1> QED BY <1>1, <1>2, BecomesStep DEF SameRole, SameLearnt, SameBuild, SameGraph, SameView

LEMMA MeetsStep ==
  ASSUME Types, NEW p \in Procs, "finish" \in Pcs, NEW met \in SUBSET (1 .. MaxInputs),
         Meets(p, met)
  PROVE  /\ Alone(p) /\ proc'[p].pc = "finish" /\ proc'[p].met = met /\ SameRole(p) /\ SameLearnt(p)
         /\ proc'[p].digest = proc[p].digest /\ SameGraph(p) /\ SameView(p)
<1> DEFINE r == [proc[p] EXCEPT !.pc = "finish", !.met = met]
<1>1. /\ r \in ProcState /\ r.pc = "finish" /\ r.met = met /\ r.want = proc[p].want
      /\ r.mode = proc[p].mode /\ r.refreshed = proc[p].refreshed /\ r.seen = proc[p].seen
      /\ r.goal = proc[p].goal /\ r.digest = proc[p].digest /\ r.graph = proc[p].graph
      /\ r.view = proc[p].view
  BY OfProc, Contents DEF ProcState
<1>2. Becomes(p, r)
  BY DEF Meets
<1> HIDE DEF r
<1> QED BY <1>1, <1>2, BecomesStep DEF SameRole, SameLearnt, SameBuild, SameGraph, SameView

LEMMA FinishedStep ==
  ASSUME Types, NEW p \in Procs, "place" \in Pcs, NEW g \in Content, Finished(p, g)
  PROVE  /\ Alone(p) /\ proc'[p].pc = "place" /\ proc'[p].digest = 0 /\ proc'[p].met = {}
         /\ proc'[p].graph = g /\ SameRole(p) /\ SameLearnt(p) /\ SameView(p)
<1> DEFINE r == [proc[p] EXCEPT !.pc = "place", !.digest = 0, !.met = {}, !.graph = g]
<1>1. /\ r \in ProcState /\ r.pc = "place" /\ r.digest = 0 /\ r.met = {} /\ r.graph = g
      /\ r.want = proc[p].want /\ r.mode = proc[p].mode /\ r.refreshed = proc[p].refreshed
      /\ r.seen = proc[p].seen /\ r.goal = proc[p].goal /\ r.view = proc[p].view
  BY OfProc, Contents DEF ProcState
<1>2. Becomes(p, r)
  BY DEF Finished
<1> HIDE DEF r
<1> QED BY <1>1, <1>2, BecomesStep DEF SameRole, SameLearnt, SameBuild, SameGraph, SameView

LEMMA PreparesStep ==
  ASSUME Types, NEW p \in Procs, NEW pc \in Pcs,
         Becomes(p, [proc[p] EXCEPT !.mode = "prepare", !.goal = Unknown, !.pc = pc])
  PROVE  /\ Alone(p) /\ proc'[p].mode = "prepare" /\ proc'[p].goal = Unknown /\ proc'[p].pc = pc
         /\ proc'[p].want = proc[p].want /\ proc'[p].refreshed = proc[p].refreshed
         /\ proc'[p].seen = proc[p].seen /\ SameBuild(p) /\ SameGraph(p) /\ SameView(p)
<1> DEFINE r == [proc[p] EXCEPT !.mode = "prepare", !.goal = Unknown, !.pc = pc]
<1>1. /\ r \in ProcState /\ r.mode = "prepare" /\ r.goal = Unknown /\ r.pc = pc
      /\ r.want = proc[p].want /\ r.refreshed = proc[p].refreshed /\ r.seen = proc[p].seen
      /\ r.digest = proc[p].digest /\ r.met = proc[p].met /\ r.graph = proc[p].graph
      /\ r.view = proc[p].view
  BY OfProc, Contents DEF ProcState
<1>2. Becomes(p, r)
  BY DEF Becomes
<1> HIDE DEF r
<1> QED BY <1>1, <1>2, BecomesStep DEF SameRole, SameLearnt, SameBuild, SameGraph, SameView

LEMMA RefreshedStep ==
  ASSUME Types, NEW p \in Procs, "lease" \in Pcs,
         Becomes(p, [proc[p] EXCEPT !.pc = "lease", !.want = "read",
                                          !.refreshed = TRUE, !.graph = Absent])
  PROVE  /\ Alone(p) /\ proc'[p].pc = "lease" /\ proc'[p].want = "read" /\ proc'[p].refreshed = TRUE
         /\ proc'[p].graph = Absent /\ proc'[p].mode = proc[p].mode /\ SameLearnt(p) /\ SameBuild(p)
         /\ SameView(p)
<1> DEFINE r == [proc[p] EXCEPT !.pc = "lease", !.want = "read", !.refreshed = TRUE, !.graph = Absent]
<1>1. /\ r \in ProcState /\ r.pc = "lease" /\ r.want = "read" /\ r.refreshed = TRUE
      /\ r.graph = Absent /\ r.mode = proc[p].mode /\ r.seen = proc[p].seen
      /\ r.goal = proc[p].goal /\ r.digest = proc[p].digest /\ r.met = proc[p].met
      /\ r.view = proc[p].view
  BY OfProc, Contents DEF ProcState
<1>2. Becomes(p, r)
  BY DEF Becomes
<1> HIDE DEF r
<1> QED BY <1>1, <1>2, BecomesStep DEF SameRole, SameLearnt, SameBuild, SameGraph, SameView

LEMMA SeesStep ==
  ASSUME Types, NEW p \in Procs, NEW what \in {"version", "digest"}, NEW value \in 0 .. MaxInputs,
         NEW pc \in Pcs, Sees(p, what, value, pc)
  PROVE  /\ Alone(p) /\ proc'[p].pc = pc /\ SameRole(p) /\ SameBuild(p) /\ SameGraph(p)
         /\ SameView(p)
         /\ proc'[p].goal = proc[p].goal /\ proc'[p].seen = [proc[p].seen EXCEPT ![what] = value]
<1> DEFINE r == [proc[p] EXCEPT !.pc = pc, !.seen[what] = value]
<1>1. /\ r \in ProcState /\ r.pc = pc /\ r.want = proc[p].want /\ r.mode = proc[p].mode
      /\ r.refreshed = proc[p].refreshed /\ r.digest = proc[p].digest /\ r.met = proc[p].met
      /\ r.graph = proc[p].graph /\ r.view = proc[p].view
      /\ r.goal = proc[p].goal /\ r.seen = [proc[p].seen EXCEPT ![what] = value]
  BY OfProc, Contents DEF ProcState, Known
<1>2. Becomes(p, r)
  BY DEF Sees
<1> HIDE DEF r
<1> QED BY <1>1, <1>2, BecomesStep DEF SameRole, SameLearnt, SameBuild, SameGraph, SameView

LEMMA AimsStep ==
  ASSUME Types, NEW p \in Procs, NEW what \in {"version", "digest"}, NEW value \in 0 .. MaxInputs,
         NEW pc \in Pcs, Aims(p, what, value, pc)
  PROVE  /\ Alone(p) /\ proc'[p].pc = pc /\ SameRole(p) /\ SameBuild(p) /\ SameGraph(p)
         /\ SameView(p)
         /\ proc'[p].seen = proc[p].seen /\ proc'[p].goal = [proc[p].goal EXCEPT ![what] = value]
<1> DEFINE r == [proc[p] EXCEPT !.pc = pc, !.goal[what] = value]
<1>1. /\ r \in ProcState /\ r.pc = pc /\ r.want = proc[p].want /\ r.mode = proc[p].mode
      /\ r.refreshed = proc[p].refreshed /\ r.digest = proc[p].digest /\ r.met = proc[p].met
      /\ r.graph = proc[p].graph /\ r.view = proc[p].view
      /\ r.seen = proc[p].seen /\ r.goal = [proc[p].goal EXCEPT ![what] = value]
  BY OfProc, Contents DEF ProcState, Known
<1>2. Becomes(p, r)
  BY DEF Aims
<1> HIDE DEF r
<1> QED BY <1>1, <1>2, BecomesStep DEF SameRole, SameLearnt, SameBuild, SameGraph, SameView

LEMMA EndsStep ==
  ASSUME Types, NEW p \in Procs, Ends(p)
  PROVE  Alone(p) /\ proc'[p] = Idle
<1>1. Idle \in ProcState
  BY Contents DEF ProcState, Idle, Pcs
<1> QED BY <1>1, BecomesStep DEF Ends

LEMMA MoveOverStep ==
  ASSUME Types, NEW p \in Procs, NEW g \in Content, NEW pc \in Pcs, MoveOver(p, g, pc)
  PROVE  /\ file' \in [api : Content, cli : Content] /\ file'.api = g /\ file'.cli = file.cli
         /\ proc' \in [Procs -> ProcState] /\ proc'[p].pc = pc
         /\ \A q \in Procs :
               /\ q # p => proc'[q].pc = proc[q].pc
               /\ SameRole(q) /\ SameLearnt(q) /\ SameBuild(q) /\ SameGraph(q)
               /\ q = p \/ proc[q].view # Theirs => SameView(q)
<1>1. /\ file' \in [api : Content, cli : Content] /\ file'.api = g /\ file'.cli = file.cli
      /\ file.api \in Content
  BY DEF Types, MoveOver
<1> DEFINE r(q) == IF q = p THEN [proc[q] EXCEPT !.pc = pc]
                   ELSE IF proc[q].view = Theirs THEN [proc[q] EXCEPT !.view = file.api]
                   ELSE proc[q]
<1>2. ASSUME NEW q \in Procs
      PROVE  /\ r(q) \in ProcState /\ r(q).pc = IF q = p THEN pc ELSE proc[q].pc
             /\ r(q).want = proc[q].want /\ r(q).mode = proc[q].mode
             /\ r(q).refreshed = proc[q].refreshed /\ r(q).seen = proc[q].seen
             /\ r(q).goal = proc[q].goal /\ r(q).digest = proc[q].digest /\ r(q).met = proc[q].met
             /\ r(q).graph = proc[q].graph
             /\ q = p \/ proc[q].view # Theirs => r(q).view = proc[q].view
  BY <1>1, <1>2, OfProc DEF ProcState
<1>3. proc' = [q \in Procs |-> r(q)]
  BY DEF MoveOver
<1> HIDE DEF r
<1> QED BY <1>1, <1>2, <1>3 DEF SameRole, SameLearnt, SameBuild, SameGraph, SameView

USE DEF Alone, SameRole, SameLearnt, SameBuild, SameGraph, SameView, accessVars, lockVars, apiVars, Works

LEMMA IdleFields ==
  /\ Idle.pc = "idle" /\ Idle.want = "read" /\ Idle.mode = "prepare" /\ Idle.seen = Unknown
  /\ Idle.goal = Unknown /\ Idle.refreshed = FALSE /\ Idle.digest = 0 /\ Idle.met = {}
  /\ Idle.graph = Absent /\ Idle.view = Absent /\ Unknown.version = 0 /\ Unknown.digest = 0
  BY DEF Idle, Unknown

(* Nothing that was in the API's file is lost, whoever has it in hand.     *)
Held == /\ Readable(Holds) => Readable(Holds')
        /\ Stamped(Holds) => Stamped(Holds')
        /\ NoFailure' /\ count'.cliRuns = 0 =>
              \A s \in Known : AtLeast(Holds, s) => AtLeast(Holds', s)

LEMMA Plain == Honest(Absent) /\ Honest(Torn) /\ Honest(Partial)
  BY DEF Honest, Stamped

LEMMA DatedStep ==
  ASSUME Types, Dated, UNCHANGED inputs, Honest(file'.api), Honest(file'.cli),
         \A p \in Procs : /\ Honest(proc'[p].graph) /\ SameBuild(p)
                          /\ At(p, "finish") => At(p, "finish")'
  PROVE  Dated'
  BY DEF Dated, Honest

CountsOn == /\ count' \in [{"failures", "requests", "cliRuns", "stops"} -> Nat]
            /\ count'.failures >= count.failures /\ count'.cliRuns >= count.cliRuns
            /\ count'.requests >= count.requests /\ count'.stops >= count.stops

LEMMA CountsStep ==
  ASSUME Types, NEW what \in {"failures", "requests", "cliRuns", "stops"}, NEW bound,
         Counts(what, bound)
  PROVE  CountsOn /\ count'[what] > 0
         /\ \A other \in {"failures", "requests", "cliRuns", "stops"} \ {what} : count'[other] = count[other]
<1>1. /\ count' = [count EXCEPT ![what] = @ + 1]
      /\ count \in [{"failures", "requests", "cliRuns", "stops"} -> Nat]
  BY DEF Types, Counts
<1> QED BY <1>1 DEF CountsOn

LEMMA ProcSeen ==
  ASSUME Types PROVE \A p \in Procs : proc[p].seen \in Known /\ proc[p].goal \in Known
                                       /\ proc[p].graph \in Content
  BY DEF Types, ProcState

LEMMA WorksStep == ASSUME Types, Works PROVE CountsOn
  BY DEF Types, CountsOn

LEMMA FailsStep == ASSUME Types, Fails PROVE CountsOn /\ count'.failures > 0
  BY CountsStep DEF Fails

-----------------------------------------------------------------------------
(* Where a thread has no graph in its hands and none under construction.   *)
Calm == {"idle", "lease", "leased", "refreshLock", "seize", "local", "adopt", "build"} \cup Asking

(* A step of a thread between two such places leaves all but the thread    *)
(* itself, and the locks of the API, as it was.                            *)
LEMMA CalmStep ==
  ASSUME Inv, NEW t \in Threads, UNCHANGED <<inputs, file, lockVars>>, CountsOn,
         backoff' = backoff, Alone(t), SameView(t), proc[t].pc \notin Carries,
         proc'[t].pc \in Calm, proc'[t].graph = Absent,
         (SameBuild(t) /\ proc[t].pc # "finish") \/ (proc'[t].digest = 0 /\ proc'[t].met = {})
  PROVE  /\ CopyLock' /\ Dated' /\ StampsAll' /\ CopyServes' /\ NoCopy'
         /\ owner' = owner /\ open' = open /\ (proc'[t].refreshed => proc[t].refreshed)
               => Whole' /\ Held
<1> USE DEF Inv, CountsOn
<1>0. SameGraph(t) /\ t \in Procs /\ t \notin CliProcs
      /\ proc'[t].pc \notin Carries \cup {"gather", "finish", "drop", "place"}
      /\ proc[t].pc \notin Carries \cup {"place"}
  BY DEF Whole, Procs, Calm, Asking, Carries
<1>1. CopyLock'
  BY <1>0 DEF Types, CopyLock, Procs
<1>2. Dated'
  <2>1. ASSUME NEW p \in Procs PROVE /\ proc'[p].digest <= inputs.digest
                                     /\ proc'[p].met \subseteq proc'[p].digest .. inputs.digest
                                     /\ ~At(p, "finish")' => proc'[p].met = {}
                                     /\ proc'[p].graph = proc[p].graph
    BY <1>0, <2>1 DEF Types, Dated, Known
  <2> QED BY <2>1 DEF Dated, Honest
<1>3. StampsAll'
  BY <1>0 DEF Types, StampsAll, NoFailure, Procs
<1>4. CopyServes'
  BY <1>0 DEF Types, CopyServes, NoFailure, AtLeast, Procs
<1>5. NoCopy'
  BY <1>0 DEF Types, NoCopy, Procs
<1>6. ASSUME owner' = owner, open' = open, proc'[t].refreshed => proc[t].refreshed
       PROVE  Whole' /\ Held
  <2>1. \A p \in Procs : proc'[p].graph = proc[p].graph
    BY <1>0
  <2>2. Holds' = Holds
    BY <1>6, <2>1 DEF Holds, Types, Procs
  <2>3. Held
    BY <2>2 DEF Held, Readable, Stamped, AtLeast
  <2>4. /\ \A p \in Procs : At(p, "place")' => Readable(proc'[p].graph)
        /\ file' = file /\ open' = open
    BY <1>0, <1>6, <2>1 DEF Whole
  <2>5. ASSUME NEW u \in Threads
        PROVE  /\ proc'[u].pc \notin Carries => proc'[u].graph = Absent
               /\ proc'[u].pc \in {"drop", "upload"} => Stamped(file.api)
               /\ proc'[u].pc \in {"upload", "uploaded"} => Stamped(proc'[u].graph)
               /\ proc'[u].pc \in {"downloaded", "uploaded"} => file.api = Torn
               /\ At(u, "done")' => Readable(file.api)
               /\ proc'[u].refreshed => Readable(Holds)
    <3>1. u \in Procs
      BY DEF Procs
    <3>2. CASE u = t
      BY <1>0, <1>6, <3>2 DEF Whole, Calm, Asking, Carries
    <3>3. CASE u # t
      <4>1. proc'[u] = proc[u]
        BY <3>1, <3>3
      <4> QED BY <4>1 DEF Whole
    <3> QED BY <3>2, <3>3
  <2>6. Whole'
    BY <2>2, <2>4, <2>5 DEF Whole, Readable, Stamped
  <2> QED BY <2>3, <2>6
<1> QED BY <1>1, <1>2, <1>3, <1>4, <1>5, <1>6

(* A step of the command line is not seen by the API.                      *)
LEMMA CliStep ==
  ASSUME Inv, NEW p \in CliProcs, UNCHANGED <<inputs, apiVars>>,
         file' \in [api : Content, cli : Content], 
         file'.api = file.api, CountsOn, count'.cliRuns # 0, Alone(p), proc'[p].pc \in CliPcs,
         At(p, "idle")' => proc'[p] = Idle, At(p, "place")' => Readable(proc'[p].graph)
  PROVE  Places' /\ Exclusion' /\ RefreshLock' /\ Whole' /\ Held /\ NoCopy' /\ ApiServes'
<1> USE DEF Inv, CountsOn
<1>1. p \in Procs /\ p \notin Threads /\ \A t \in Threads : t \in Procs /\ proc'[t] = proc[t]
  BY DEF Procs
<1>2. Places'
  BY <1>1 DEF Places, Procs
<1>3. Exclusion' /\ RefreshLock'
  BY <1>1 DEF Exclusion, RefreshLock
<1>4. Holds' = Holds
  BY <1>1 DEF Holds, Types
<1>5. Whole' /\ Held
  BY <1>1, <1>4 DEF Held, Whole, Readable, Procs
<1>6. NoCopy'
  BY DEF NoCopy
<1>7. ApiServes'
  BY DEF ApiServes
<1> QED BY <1>2, <1>3, <1>5, <1>6, <1>7

(* ... and when it leaves the files alone and builds nothing, it is not    *)
(* seen by the other runs.                                                 *)
LEMMA QuietCliStep ==
  ASSUME Inv, NEW p \in CliProcs, UNCHANGED <<inputs, apiVars, file>>, CountsOn, count'.cliRuns # 0,
         Alone(p), proc'[p].pc \in CliPcs \ {"gather", "finish", "place"},
         At(p, "idle")' => proc'[p] = Idle,
         SameGraph(p) \/ proc'[p].graph = Absent,
         (SameBuild(p) /\ proc[p].pc # "finish") \/ (proc'[p].digest = 0 /\ proc'[p].met = {})
  PROVE  Places' /\ Exclusion' /\ RefreshLock' /\ Whole' /\ Held /\ NoCopy' /\ ApiServes'
         /\ Dated' /\ StampsAll'
<1> USE DEF Inv, CountsOn
<1>1. p \in Procs /\ file \in [api : Content, cli : Content]
  BY DEF Procs, Types
<1>2. Places' /\ Exclusion' /\ RefreshLock' /\ Whole' /\ Held /\ NoCopy' /\ ApiServes'
  BY <1>1, CliStep
<1>3. Dated'
  <2>1. ASSUME NEW q \in Procs PROVE /\ proc'[q].digest <= inputs.digest
                                     /\ proc'[q].met \subseteq proc'[q].digest .. inputs.digest
                                     /\ ~At(q, "finish")' => proc'[q].met = {}
                                     /\ proc'[q].graph \in {proc[q].graph, Absent}
    BY <1>1, <2>1 DEF Types, Dated, Known
  <2>2. \A g : Honest(g) => Honest(g)'
    BY DEF Honest, Stamped
  <2> QED BY <2>1, <2>2 DEF Dated, Honest, Stamped
<1>4. StampsAll'
  BY <1>1 DEF Types, StampsAll, NoFailure
<1> QED BY <1>2, <1>3, <1>4

(* A step of a thread is not seen by the runs of the command line, except  *)
(* that their copy may go, and a handle on the API's file be left behind.  *)
LEMMA ThreadStep ==
  ASSUME Inv, UNCHANGED <<inputs, lockVars>>, CountsOn,
         file'.cli \in {file.cli, Absent},
         \A p \in CliProcs : /\ proc'[p].pc = proc[p].pc /\ SameLearnt(p) /\ SameBuild(p) /\ SameGraph(p)
                             /\ proc[p].view # Theirs => SameView(p)
  PROVE  CopyLock' /\ CopyServes'
<1> USE DEF Inv, CountsOn
<1>1. CopyLock'
  BY DEF CopyLock
<1>2. \A p \in CliProcs : \A g : AtLeast(proc[p].view, g) => proc'[p].view = proc[p].view
  BY DEF AtLeast, Stamped
<1>3. CopyServes'
  <2> SUFFICES ASSUME NoFailure' PROVE CopyServes'
    BY DEF CopyServes
  <2>1. NoFailure
    BY DEF NoFailure, Types
  <2> QED BY <1>2, <2>1 DEF CopyServes, AtLeast
<1> QED BY <1>1, <1>3

(* A thread that has the file to itself: no other is at a step of its own. *)
LEMMA OwnerStep ==
  ASSUME Inv, NEW t \in Threads, proc[t].pc \in Own, UNCHANGED accessVars, Held,
         \A q \in Procs : /\ proc'[q].refreshed = proc[q].refreshed
                          /\ q # t => proc'[q].pc = proc[q].pc /\ SameGraph(q),
         proc'[t].pc \notin Carries => proc'[t].graph = Absent,
         proc'[t].pc \in {"drop", "upload"} => Stamped(file'.api),
         proc'[t].pc \in {"upload", "uploaded"} => Stamped(proc'[t].graph),
         proc'[t].pc \in {"downloaded", "uploaded"} => file'.api = Torn,
         proc'[t].pc = "done" => Readable(file'.api),
         proc'[t].pc = "place" => Readable(proc'[t].graph)
  PROVE  Whole'
<1> USE DEF Inv
<1>1. owner[Job] = t /\ t \in Procs /\ open = {} /\ Job \in {Job}
      /\ \A u \in Threads \ {t} : u \in Procs /\ proc[u].pc \notin Own
  BY DEF Exclusion, Procs
<1>2. \A u \in Threads \ {t} : proc[u].graph = Absent /\ proc'[u].graph = Absent
                               /\ proc'[u].pc \notin Own
  BY <1>1 DEF Whole, Carries, Own
<1>3. \A p \in Procs : At(p, "place")' => Readable(proc'[p].graph)
  BY DEF Whole
<1>4. \A u \in Threads : proc'[u].refreshed => Readable(Holds')
  BY DEF Whole, Held, Procs
<1>5. \A p \in Procs : Readable(proc'[p].graph) <=> Readable(proc[p].graph)'
  BY DEF Readable, Stamped
<1> QED BY <1>1, <1>2, <1>3, <1>4, <1>5 DEF Whole, Own, Readable, Stamped

-----------------------------------------------------------------------------
(* Requests, outside the file.                                             *)

LEMMA AskInv ==
  ASSUME Inv, NEW t \in Threads, NEW what \in {"version", "digest"}, Ask(t, what)
  PROVE  Inv' /\ Held
<1>1. /\ UNCHANGED <<inputs, file, accessVars, known, backoff, refreshing, lockVars, count>> /\ CountsOn
      /\ proc[t].pc = what /\ Alone(t) /\ SameRole(t) /\ SameBuild(t) /\ SameGraph(t) /\ SameView(t)
      /\ proc'[t].pc \in {"keepVersion", "keepDigest", "digest", "local", "lease"}
      /\ proc'[t].pc = "local" => owner[Job] = t
      /\ proc'[t].pc = "lease" => owner[Job] # t
      /\ UpTo(proc'[t].seen) /\ UpTo(proc'[t].goal)
      /\ owner[Job] = t => proc'[t].seen = proc[t].seen
  <2>1. known[what] \in 0 .. MaxInputs /\ inputs[what] \in 0 .. MaxInputs
    BY DEF Inv, Types, Known
  <2>2. /\ AfterAsking(t, what) \in {"digest", "local", "lease"}
        /\ Keeping[what] \in {"keepVersion", "keepDigest"}
        /\ AfterAsking(t, what) = "local" => owner[Job] = t
        /\ AfterAsking(t, what) = "lease" => owner[Job] # t
    BY DEF AfterAsking, Keeping
  <2>3. PICK value \in {known[what], inputs[what]}, pc \in {AfterAsking(t, what), Keeping[what]} :
           Learns(t, what, value, pc)
    BY DEF Ask
  <2>4. value \in 0 .. MaxInputs /\ pc \in Pcs /\ t \in Procs
    BY <2>1, <2>2 DEF Pcs, Procs
  <2>5. \A k \in Known : UpTo(k) => UpTo([k EXCEPT ![what] = value])
    BY <2>3 DEF Inv, Types, Learnt, UpTo, Known
  <2>6. proc[t].seen \in Known /\ proc[t].goal \in Known /\ UpTo(proc[t].seen) /\ UpTo(proc[t].goal)
    BY <2>4 DEF Inv, Types, ProcState, Learnt
  <2>9. /\ UNCHANGED <<inputs, file, accessVars, known, backoff, refreshing, lockVars, count>>
        /\ CountsOn /\ proc[t].pc = what
    BY WorksStep DEF Inv, Ask
  <2>7. CASE owner[Job] = t
    <3>1. Aims(t, what, value, pc)
      BY <2>3, <2>7 DEF Learns
    <3>2. /\ Alone(t) /\ proc'[t].pc = pc /\ SameRole(t) /\ SameBuild(t) /\ SameGraph(t) /\ SameView(t)
          /\ proc'[t].seen = proc[t].seen /\ proc'[t].goal = [proc[t].goal EXCEPT ![what] = value]
      BY <2>4, <3>1, AimsStep DEF Inv
    <3>3. UpTo(proc'[t].seen) /\ UpTo(proc'[t].goal)
      BY <2>5, <2>6, <3>2
    <3> QED BY <2>2, <2>3, <2>7, <3>2, <3>3, <2>9
  <2>8. CASE owner[Job] # t
    <3>1. Sees(t, what, value, pc)
      BY <2>3, <2>8 DEF Learns
    <3>2. /\ Alone(t) /\ proc'[t].pc = pc /\ SameRole(t) /\ SameBuild(t) /\ SameGraph(t) /\ SameView(t)
          /\ proc'[t].goal = proc[t].goal /\ proc'[t].seen = [proc[t].seen EXCEPT ![what] = value]
      BY <2>4, <3>1, SeesStep DEF Inv
    <3>3. UpTo(proc'[t].seen) /\ UpTo(proc'[t].goal)
      BY <2>5, <2>6, <3>2
    <3> QED BY <2>2, <2>3, <2>8, <3>2, <3>3, <2>9
  <2> QED BY <2>7, <2>8
<1>2. CopyLock' /\ Dated' /\ StampsAll' /\ CopyServes' /\ NoCopy' /\ Whole' /\ Held
  BY <1>1, CalmStep DEF Inv, Types, Places, Whole, Calm, Asking, Carries, Procs, CountsOn
<1>3. Types'
  BY <1>1 DEF Inv, Types, Known, CountsOn
<1>4. Places'
  BY <1>1 DEF Inv, Types, Places, ThreadPcs, CliPcs, Own, Asking, Building, Procs
<1>5. Exclusion'
  BY <1>1 DEF Inv, Types, Places, Exclusion, Own, Asking, Procs
<1>6. RefreshLock'
  BY <1>1 DEF Inv, Types, Places, Exclusion, RefreshLock, Own, Asking, Procs
<1>7. Learnt'
  BY <1>1 DEF Inv, Types, Learnt, UpTo, Known, Unknown, Procs, Asking
<1>8. ApiServes'
  BY <1>1, <1>2, ProcSeen DEF Inv, Types, CountsOn, Places, Exclusion, Whole, StampsAll, NoCopy,
      ApiServes, NoFailure, AtLeast, Held, Carries, Own, Asking, Readable, Procs
<1> QED BY <1>2, <1>3, <1>4, <1>5, <1>6, <1>7, <1>8 DEF Inv

LEMMA UnansweredInv ==
  ASSUME Inv, NEW t \in Threads, NEW what \in {"version", "digest"}, Unanswered(t, what)
  PROVE  Inv' /\ Held
<1>1. /\ UNCHANGED <<inputs, file, accessVars, known, backoff, refreshing, lockVars>> /\ CountsOn
      /\ count'.failures > 0
      /\ proc[t].pc = what /\ Alone(t) /\ SameLearnt(t) /\ SameBuild(t) /\ SameGraph(t) /\ SameView(t)
      /\ proc'[t].mode = proc[t].mode /\ proc'[t].refreshed = proc[t].refreshed
      /\ \/ proc'[t].want = proc[t].want /\ proc'[t].pc = "local" /\ owner[Job] = t
         \/ proc'[t].want = proc[t].want /\ proc'[t].pc = "lease" /\ owner[Job] # t
         \/ proc'[t].want = "read" /\ proc'[t].pc = "lease" /\ owner[Job] # t
  <2>1. t \in Procs /\ {"local", "lease"} \subseteq Pcs
    BY DEF Pcs, Procs
  <2>2. CountsOn /\ count'.failures > 0
    BY FailsStep DEF Inv, Unanswered
  <2>3. \/ Goto(t, "local") /\ owner[Job] = t
        \/ Goto(t, "lease") /\ owner[Job] # t
        \/ Wants(t, "lease", "read") /\ owner[Job] # t
    BY DEF Unanswered, AfterAsking, ReadsOn
  <2>4. CASE Goto(t, "local") /\ owner[Job] = t
    BY <2>1, <2>2, <2>4, GotoStep DEF Inv, Unanswered
  <2>5. CASE Goto(t, "lease") /\ owner[Job] # t
    BY <2>1, <2>2, <2>5, GotoStep DEF Inv, Unanswered
  <2>6. CASE Wants(t, "lease", "read") /\ owner[Job] # t
    BY <2>1, <2>2, <2>6, WantsStep DEF Inv, Unanswered
  <2> QED BY <2>3, <2>4, <2>5, <2>6
<1>2. CopyLock' /\ Dated' /\ StampsAll' /\ CopyServes' /\ NoCopy' /\ Whole' /\ Held
  BY <1>1, CalmStep DEF Inv, Types, Places, Whole, Calm, Asking, Carries, Procs, CountsOn
<1>3. Types'
  BY <1>1 DEF Inv, Types, Known, CountsOn
<1>4. Places'
  BY <1>1 DEF Inv, Types, Places, ThreadPcs, CliPcs, Own, Asking, Building, Procs
<1>5. Exclusion'
  BY <1>1 DEF Inv, Types, Places, Exclusion, Own, Asking, Procs
<1>6. RefreshLock'
  BY <1>1 DEF Inv, Types, Places, Exclusion, RefreshLock, Own, Asking, Procs
<1>7. Learnt'
  BY <1>1 DEF Inv, Types, Learnt, UpTo, Known, Unknown, Procs
<1>8. ApiServes'
  BY <1>1, <1>2, ProcSeen DEF Inv, Types, CountsOn, Places, Exclusion, Whole, StampsAll, NoCopy,
      ApiServes, NoFailure, AtLeast, Held, Carries, Own, Asking, Readable, Procs
<1> QED BY <1>2, <1>3, <1>4, <1>5, <1>6, <1>7, <1>8 DEF Inv

LEMMA KeepAnswerInv ==
  ASSUME Inv, NEW t \in Threads, NEW what \in {"version", "digest"}, KeepAnswer(t, what)
  PROVE  Inv' /\ Held
<1>1. /\ UNCHANGED <<inputs, file, accessVars, backoff, refreshing, lockVars, count>> /\ CountsOn
      /\ known' \in Known /\ UpTo(known')
      /\ proc[t].pc \in {"keepVersion", "keepDigest"} /\ Alone(t) /\ SameRole(t) /\ SameLearnt(t)
      /\ SameBuild(t) /\ SameGraph(t) /\ SameView(t)
      /\ \/ proc'[t].pc = "digest"
         \/ proc'[t].pc = "local" /\ owner[Job] = t
         \/ proc'[t].pc = "lease" /\ owner[Job] # t
  <2>1. t \in Procs /\ AfterAsking(t, what) \in Pcs /\ Keeping[what] \in {"keepVersion", "keepDigest"}
        /\ \/ AfterAsking(t, what) = "digest"
           \/ AfterAsking(t, what) = "local" /\ owner[Job] = t
           \/ AfterAsking(t, what) = "lease" /\ owner[Job] # t
    BY DEF AfterAsking, Keeping, Pcs, Procs
  <2>2. Knows(t) \in Known /\ UpTo(Knows(t)) /\ known \in Known /\ UpTo(known)
    BY <2>1 DEF Inv, Types, ProcState, Learnt, Knows
  <2>3. known' \in Known /\ UpTo(known')
    BY <2>2 DEF KeepAnswer, Known, UpTo
  <2> QED BY <2>1, <2>3, GotoStep, WorksStep DEF Inv, KeepAnswer
<1>2. CopyLock' /\ Dated' /\ StampsAll' /\ CopyServes' /\ NoCopy' /\ Whole' /\ Held
  BY <1>1, CalmStep DEF Inv, Types, Places, Whole, Calm, Asking, Carries, Procs, CountsOn
<1>3. Types'
  BY <1>1 DEF Inv, Types, Known, CountsOn
<1>4. Places'
  BY <1>1 DEF Inv, Types, Places, ThreadPcs, CliPcs, Own, Asking, Building, Procs
<1>5. Exclusion'
  BY <1>1 DEF Inv, Types, Places, Exclusion, Own, Asking, Procs
<1>6. RefreshLock'
  BY <1>1 DEF Inv, Types, Places, Exclusion, RefreshLock, Own, Asking, Procs
<1>7. Learnt'
  BY <1>1 DEF Inv, Types, Learnt, UpTo, Known, Unknown, Procs
<1>8. ApiServes'
  BY <1>1, <1>2, ProcSeen DEF Inv, Types, CountsOn, Places, Exclusion, Whole, StampsAll, NoCopy,
      ApiServes, NoFailure, AtLeast, Held, Carries, Own, Asking, Readable, Procs
<1> QED BY <1>2, <1>3, <1>4, <1>5, <1>6, <1>7, <1>8 DEF Inv

LEMMA BeginReadInv ==
  ASSUME Inv, NEW t \in Threads, BeginRead(t)
  PROVE  Inv' /\ Held
<1>1. /\ UNCHANGED <<inputs, file, accessVars, known, backoff, refreshing, lockVars>> /\ CountsOn
      /\ proc[t] = Idle /\ Alone(t) /\ SameLearnt(t) /\ SameBuild(t) /\ SameGraph(t) /\ SameView(t)
      /\ proc'[t].mode = proc[t].mode /\ proc'[t].refreshed = proc[t].refreshed
      /\ \/ proc'[t].pc = "lease" /\ proc'[t].want = "read"
         \/ proc'[t].pc = "version" /\ proc'[t].want = "compare"
  <2>1. t \in Procs /\ {"lease", "version"} \subseteq Pcs
    BY DEF Pcs, Procs
  <2>2. proc[t] = Idle
    BY <2>1 DEF Inv, Places, BeginRead
  <2>3. CountsOn
    BY CountsStep DEF Inv, BeginRead
  <2>4. CASE Wants(t, "lease", "read")
    BY <2>1, <2>2, <2>3, <2>4, WantsStep DEF Inv, BeginRead
  <2>5. CASE Wants(t, "version", "compare")
    BY <2>1, <2>2, <2>3, <2>5, WantsStep DEF Inv, BeginRead
  <2> QED BY <2>4, <2>5 DEF BeginRead, ReadsOn
<1>2. CopyLock' /\ Dated' /\ StampsAll' /\ CopyServes' /\ NoCopy' /\ Whole' /\ Held
  BY <1>1, IdleFields, CalmStep DEF Inv, Types, Places, Whole, Calm, Asking, Carries, Procs,
      CountsOn
<1>3. Types'
  BY <1>1, IdleFields DEF Inv, Types, Known, CountsOn
<1>4. Places'
  BY <1>1, IdleFields DEF Inv, Types, Places, ThreadPcs, CliPcs, Own, Asking, Building, Procs
<1>5. Exclusion'
  BY <1>1, IdleFields DEF Inv, Types, Places, Exclusion, Own, Asking, Procs
<1>6. RefreshLock'
  BY <1>1, IdleFields DEF Inv, Types, Places, Exclusion, RefreshLock, Own, Asking, Procs
<1>7. Learnt'
  BY <1>1, IdleFields DEF Inv, Types, Learnt, UpTo, Known, Unknown, Procs
<1>8. ApiServes'
  BY <1>1, <1>2, ProcSeen, IdleFields DEF Inv, Types, CountsOn, Places, Exclusion, Whole,
      StampsAll, NoCopy, ApiServes, NoFailure, AtLeast, Held, Carries, Own, Asking, Readable,
      Procs
<1> QED BY <1>2, <1>3, <1>4, <1>5, <1>6, <1>7, <1>8 DEF Inv

LEMMA BeginRebuildInv ==
  ASSUME Inv, NEW t \in Threads, BeginRebuild(t)
  PROVE  Inv' /\ Held
<1>1. /\ UNCHANGED <<inputs, file, accessVars, known, backoff, refreshing, lockVars>> /\ CountsOn
      /\ proc[t] = Idle /\ Alone(t) /\ SameLearnt(t) /\ SameBuild(t) /\ SameGraph(t) /\ SameView(t)
      /\ proc'[t].mode = "rebuild" /\ proc'[t].refreshed = proc[t].refreshed
      /\ proc'[t].pc = "seize" /\ proc'[t].want = proc[t].want
  <2>1. t \in Procs /\ "seize" \in Pcs
    BY DEF Pcs, Procs
  <2>2. proc[t] = Idle
    BY <2>1 DEF Inv, Places, BeginRebuild
  <2>3. CountsOn
    BY CountsStep DEF Inv, BeginRebuild
  <2> QED BY <2>1, <2>2, <2>3, GoesStep DEF Inv, BeginRebuild
<1>2. CopyLock' /\ Dated' /\ StampsAll' /\ CopyServes' /\ NoCopy' /\ Whole' /\ Held
  BY <1>1, IdleFields, CalmStep DEF Inv, Types, Places, Whole, Calm, Asking, Carries, Procs,
      CountsOn
<1>3. Types'
  BY <1>1, IdleFields DEF Inv, Types, Known, CountsOn
<1>4. Places'
  BY <1>1, IdleFields DEF Inv, Types, Places, ThreadPcs, CliPcs, Own, Asking, Building, Procs
<1>5. Exclusion'
  BY <1>1, IdleFields DEF Inv, Types, Places, Exclusion, Own, Asking, Procs
<1>6. RefreshLock'
  BY <1>1, IdleFields DEF Inv, Types, Places, Exclusion, RefreshLock, Own, Asking, Procs
<1>7. Learnt'
  BY <1>1, IdleFields DEF Inv, Types, Learnt, UpTo, Known, Unknown, Procs
<1>8. ApiServes'
  BY <1>1, <1>2, ProcSeen, IdleFields DEF Inv, Types, CountsOn, Places, Exclusion, Whole,
      StampsAll, NoCopy, ApiServes, NoFailure, AtLeast, Held, Carries, Own, Asking, Readable,
      Procs
<1> QED BY <1>2, <1>3, <1>4, <1>5, <1>6, <1>7, <1>8 DEF Inv

LEMMA TakesLeaseInv ==
  ASSUME Inv, NEW t \in Threads, At(t, "lease"), Access!Lease(t, Job), Goto(t, "leased"),
         UNCHANGED <<inputs, file, known, backoff, refreshing, lockVars, count>>
  PROVE  Inv' /\ Held
<1>1. /\ UNCHANGED <<inputs, file, known, backoff, refreshing, lockVars, count, open, owner>> /\ CountsOn
      /\ proc[t].pc = "lease" /\ open = {Job} /\ owner[Job] = Nobody
      /\ readers' \in [{Job} -> SUBSET Threads] /\ readers'[Job] = readers[Job] \cup {t}
      /\ Alone(t) /\ proc'[t].pc = "leased" /\ SameRole(t) /\ SameLearnt(t) /\ SameBuild(t)
      /\ SameGraph(t) /\ SameView(t)
  <2>1. t \in Procs /\ "leased" \in Pcs
    BY DEF Pcs, Procs
  <2> QED BY <2>1, GotoStep, WorksStep DEF Inv, Types, Access!Lease
<1>2. CopyLock' /\ Dated' /\ StampsAll' /\ CopyServes' /\ NoCopy' /\ Whole' /\ Held
  BY <1>1, CalmStep DEF Inv, Types, Places, Whole, Calm, Asking, Carries, Procs, CountsOn
<1>3. Types'
  BY <1>1 DEF Inv, Types, Known, CountsOn
<1>4. Places'
  BY <1>1 DEF Inv, Types, Places, ThreadPcs, CliPcs, Own, Asking, Building, Procs
<1>5. Exclusion'
  BY <1>1 DEF Inv, Types, Places, Exclusion, Own, Asking, Procs
<1>6. RefreshLock'
  BY <1>1 DEF Inv, Types, Places, Exclusion, RefreshLock, Own, Asking, Procs
<1>7. Learnt'
  BY <1>1 DEF Inv, Types, Learnt, UpTo, Known, Unknown, Procs
<1>8. ApiServes'
  BY <1>1, <1>2, ProcSeen DEF Inv, Types, CountsOn, Places, Exclusion, Whole, StampsAll, NoCopy,
      ApiServes, NoFailure, AtLeast, Held, Carries, Own, Asking, Readable, Procs
<1> QED BY <1>2, <1>3, <1>4, <1>5, <1>6, <1>7, <1>8 DEF Inv

LEMMA CompareInv ==
  ASSUME Inv, NEW t \in Threads, Compare(t)
  PROVE  Inv' /\ Held
<1>1. /\ UNCHANGED <<inputs, file, known, backoff, lockVars, count, open, owner>> /\ CountsOn
      /\ proc[t].pc = "leased" /\ proc[t].want \in {"compare", "recheck"}
      /\ readers' \in [{Job} -> SUBSET Threads] /\ readers'[Job] = readers[Job] \ {t}
      /\ Alone(t) /\ SameLearnt(t) /\ SameBuild(t) /\ SameGraph(t) /\ SameView(t)
      /\ proc'[t].refreshed = proc[t].refreshed
      /\ \/ /\ Current(file.api, proc[t].seen) /\ proc'[t].mode = proc[t].mode
            /\ proc'[t].pc = "lease" /\ proc'[t].want = "read"
            /\ refreshing' = IF refreshing = t THEN Nobody ELSE refreshing
         \/ /\ proc'[t].mode = proc[t].mode /\ proc[t].want = "compare"
            /\ proc'[t].pc = "refreshLock" /\ proc'[t].want = "compare" /\ refreshing' = refreshing
         \/ /\ proc'[t].mode = "refresh" /\ proc[t].want = "recheck"
            /\ proc'[t].pc = "seize" /\ proc'[t].want = "recheck" /\ refreshing' = refreshing
  <2>1. t \in Procs /\ {"lease", "refreshLock", "seize"} \subseteq Pcs
    BY DEF Pcs, Procs
  <2>2. /\ readers' \in [{Job} -> SUBSET Threads] /\ readers'[Job] = readers[Job] \ {t}
        /\ UNCHANGED <<open, owner>>
    BY DEF Inv, Types, Access!Release, Compare
  <2>3. CASE /\ Current(file.api, proc[t].seen) /\ Wants(t, "lease", "read")
             /\ refreshing' = IF refreshing = t THEN Nobody ELSE refreshing
    BY <2>1, <2>2, <2>3, WantsStep, WorksStep DEF Inv, Compare
  <2>4. CASE proc[t].want = "compare" /\ Goto(t, "refreshLock") /\ refreshing' = refreshing
    BY <2>1, <2>2, <2>4, GotoStep, WorksStep DEF Inv, Compare
  <2>5. CASE proc[t].want = "recheck" /\ Goes(t, "seize", "refresh") /\ refreshing' = refreshing
    BY <2>1, <2>2, <2>5, GoesStep, WorksStep DEF Inv, Compare
  <2> QED BY <2>3, <2>4, <2>5 DEF Compare, ReadsOn
<1>2. CopyLock' /\ Dated' /\ StampsAll' /\ CopyServes' /\ NoCopy' /\ Whole' /\ Held
  BY <1>1, CalmStep DEF Inv, Types, Places, Whole, Calm, Asking, Carries, Procs, CountsOn
<1>3. Types'
  BY <1>1 DEF Inv, Types, Known, CountsOn
<1>4. Places'
  BY <1>1 DEF Inv, Types, Places, ThreadPcs, CliPcs, Own, Asking, Building, Procs
<1>5. Exclusion'
  BY <1>1 DEF Inv, Types, Places, Exclusion, Own, Asking, Procs
<1>6. RefreshLock'
  BY <1>1 DEF Inv, Types, Places, Exclusion, RefreshLock, Own, Asking, Procs
<1>7. Learnt'
  BY <1>1 DEF Inv, Types, Learnt, UpTo, Known, Unknown, Procs
<1>8. ApiServes'
  BY <1>1, <1>2, ProcSeen DEF Inv, Types, CountsOn, Places, Exclusion, Whole, StampsAll, NoCopy,
      ApiServes, NoFailure, AtLeast, Held, Carries, Own, Asking, Readable, Procs, Holds, Current,
      Stamped, Learnt, Known, ProcState, Graph
<1> QED BY <1>2, <1>3, <1>4, <1>5, <1>6, <1>7, <1>8 DEF Inv

LEMMA TakeRefreshLockInv ==
  ASSUME Inv, NEW t \in Threads, TakeRefreshLock(t)
  PROVE  Inv' /\ Held
<1>1. /\ UNCHANGED <<inputs, file, accessVars, known, backoff, lockVars, count>> /\ CountsOn
      /\ proc[t].pc = "refreshLock" /\ Alone(t) /\ SameLearnt(t) /\ SameBuild(t) /\ SameGraph(t)
      /\ SameView(t)
      /\ proc'[t].refreshed = proc[t].refreshed /\ proc'[t].mode = proc[t].mode /\ proc'[t].pc = "lease"
      /\ \/ backoff /\ proc'[t].want = "read" /\ refreshing' = refreshing
         \/ proc'[t].want = "recheck" /\ refreshing' = t
      /\ refreshing = Nobody
  <2>1. t \in Procs /\ "lease" \in Pcs
    BY DEF Pcs, Procs
  <2>2. CASE backoff /\ Wants(t, "lease", "read") /\ refreshing' = refreshing
    BY <2>1, <2>2, WantsStep, WorksStep DEF Inv, TakeRefreshLock
  <2>3. CASE Wants(t, "lease", "recheck") /\ refreshing' = t
    BY <2>1, <2>3, WantsStep, WorksStep DEF Inv, TakeRefreshLock
  <2> QED BY <2>2, <2>3 DEF TakeRefreshLock, ReadsOn
<1>2. CopyLock' /\ Dated' /\ StampsAll' /\ CopyServes' /\ NoCopy' /\ Whole' /\ Held
  BY <1>1, CalmStep DEF Inv, Types, Places, Whole, Calm, Asking, Carries, Procs, CountsOn
<1>3. Types'
  BY <1>1 DEF Inv, Types, Known, CountsOn
<1>4. Places'
  BY <1>1 DEF Inv, Types, Places, ThreadPcs, CliPcs, Own, Asking, Building, Procs
<1>5. Exclusion'
  BY <1>1 DEF Inv, Types, Places, Exclusion, Own, Asking, Procs
<1>6. RefreshLock'
  BY <1>1 DEF Inv, Types, Places, Exclusion, RefreshLock, Own, Asking, Procs
<1>7. Learnt'
  BY <1>1 DEF Inv, Types, Learnt, UpTo, Known, Unknown, Procs
<1>8. ApiServes'
  BY <1>1, <1>2, ProcSeen DEF Inv, Types, CountsOn, Places, Exclusion, Whole, StampsAll, NoCopy,
      ApiServes, NoFailure, AtLeast, Held, Carries, Own, Asking, Readable, Procs
<1> QED BY <1>2, <1>3, <1>4, <1>5, <1>6, <1>7, <1>8 DEF Inv

LEMMA EndReadInv ==
  ASSUME Inv, NEW t \in Threads, EndRead(t)
  PROVE  Inv' /\ Held
<1>1. /\ UNCHANGED <<inputs, file, known, backoff, refreshing, lockVars, count, open, owner>> /\ CountsOn
      /\ proc[t].pc = "leased" /\ proc[t].want = "read" /\ Alone(t) /\ proc'[t] = Idle
      /\ readers' \in [{Job} -> SUBSET Threads] /\ readers'[Job] = readers[Job] \ {t}
  <2>1. /\ readers' \in [{Job} -> SUBSET Threads] /\ readers'[Job] = readers[Job] \ {t}
        /\ UNCHANGED <<open, owner>>
    BY DEF Inv, Types, Access!Release, EndRead
  <2> QED BY <2>1, EndsStep, WorksStep DEF Inv, EndRead, Procs
<1>2. CopyLock' /\ Dated' /\ StampsAll' /\ CopyServes' /\ NoCopy' /\ Whole' /\ Held
  BY <1>1, IdleFields, CalmStep DEF Inv, Types, Places, Whole, Calm, Asking, Carries, Procs,
      CountsOn
<1>3. Types'
  BY <1>1, IdleFields DEF Inv, Types, Known, CountsOn
<1>4. Places'
  BY <1>1, IdleFields DEF Inv, Types, Places, ThreadPcs, CliPcs, Own, Asking, Building, Procs
<1>5. Exclusion'
  BY <1>1, IdleFields DEF Inv, Types, Places, Exclusion, Own, Asking, Procs
<1>6. RefreshLock'
  BY <1>1, IdleFields DEF Inv, Types, Places, Exclusion, RefreshLock, Own, Asking, Procs
<1>7. Learnt'
  BY <1>1, IdleFields DEF Inv, Types, Learnt, UpTo, Known, Unknown, Procs
<1>8. ApiServes'
  BY <1>1, <1>2, ProcSeen, IdleFields DEF Inv, Types, CountsOn, Places, Exclusion, Whole,
      StampsAll, NoCopy, ApiServes, NoFailure, AtLeast, Held, Carries, Own, Asking, Readable,
      Procs
<1> QED BY <1>2, <1>3, <1>4, <1>5, <1>6, <1>7, <1>8 DEF Inv

-----------------------------------------------------------------------------
(* The owner of the file.                                                  *)

LEMMA PreparesInv ==
  ASSUME Inv, NEW t \in Threads, At(t, "lease"), open = {}, Access!Seize(t, Job),
         Becomes(t, [proc[t] EXCEPT !.mode = "prepare", !.goal = Unknown,
                !.pc = IF proc[t].refreshed /\ file.api # Absent THEN "done"
                       ELSE IF backoff THEN "local" ELSE "version"]),
         UNCHANGED <<inputs, file, known, backoff, refreshing, lockVars, count>>
  PROVE  Inv' /\ Held
<1>1. /\ UNCHANGED <<inputs, file, known, backoff, refreshing, lockVars, count, readers>> /\ CountsOn
      /\ proc[t].pc = "lease" /\ open = {} /\ open' = {} /\ owner[Job] = Nobody /\ readers[Job] = {}
      /\ owner' \in [{Job} -> Threads \cup {Nobody}] /\ owner'[Job] = t
      /\ Alone(t) /\ proc'[t].mode = "prepare" /\ proc'[t].goal = Unknown
      /\ proc'[t].want = proc[t].want /\ proc'[t].refreshed = proc[t].refreshed
      /\ proc'[t].seen = proc[t].seen
      /\ SameBuild(t) /\ SameGraph(t) /\ SameView(t)
      /\ \/ proc'[t].pc = "done" /\ proc[t].refreshed
         \/ proc'[t].pc \in {"local", "version"}
  <2>1. t \in Procs /\ {"done", "local", "version"} \subseteq Pcs
    BY DEF Pcs, Procs
  <2>2. /\ open' = {} /\ owner[Job] = Nobody /\ readers[Job] = {} /\ readers' = readers
        /\ owner' \in [{Job} -> Threads \cup {Nobody}] /\ owner'[Job] = t
    BY DEF Inv, Types, Access!Seize
  <2> DEFINE pc == IF proc[t].refreshed /\ file.api # Absent THEN "done"
                   ELSE IF backoff THEN "local" ELSE "version"
  <2>3. pc \in Pcs /\ ((pc = "done" /\ proc[t].refreshed) \/ pc \in {"local", "version"})
    BY <2>1
  <2> HIDE DEF pc
  <2>4. Becomes(t, [proc[t] EXCEPT !.mode = "prepare", !.goal = Unknown, !.pc = pc])
    BY DEF pc
  <2>5. /\ Alone(t) /\ proc'[t].mode = "prepare" /\ proc'[t].goal = Unknown /\ proc'[t].pc = pc
        /\ proc'[t].want = proc[t].want /\ proc'[t].refreshed = proc[t].refreshed
        /\ proc'[t].seen = proc[t].seen /\ SameBuild(t) /\ SameGraph(t) /\ SameView(t)
    BY <2>1, <2>3, <2>4, PreparesStep DEF Inv
  <2> QED BY <2>1, <2>2, <2>3, <2>5, WorksStep DEF Inv
<1>2. Held
  <2>1. Holds = file.api
    BY <1>1 DEF Holds
  <2>2. proc'[t].graph = Absent /\ Holds' = IF file.api = Torn THEN proc'[t].graph ELSE file.api
    BY <1>1 DEF Holds, Inv, Whole, Carries
  <2> QED BY <1>1, <2>1, <2>2 DEF Held, Readable, Stamped, AtLeast
<1>3. CopyLock' /\ CopyServes'
  BY <1>1, ThreadStep DEF Inv, Types, Procs, CountsOn
<1>4. Types'
  BY <1>1 DEF Inv, Types, Known, CountsOn
<1>5. Places'
  BY <1>1 DEF Inv, Types, Places, ThreadPcs, CliPcs, Own, Asking, Building, Procs
<1>6. Exclusion'
  BY <1>1 DEF Inv, Types, Places, Exclusion, Own, Asking, Procs
<1>7. RefreshLock'
  BY <1>1 DEF Inv, Types, Places, Exclusion, RefreshLock, Own, Asking, Procs
<1>8. Whole'
  BY <1>1, <1>2, ProcSeen DEF Inv, Types, Places, Exclusion, Whole, Held, Carries, Own, Asking,
      Readable, Procs, Holds
<1>9. Dated'
  BY <1>1, DatedStep, Plain DEF Inv, Types, Dated, Honest, Known, Procs
<1>10. Learnt'
  BY <1>1, IdleFields DEF Inv, Types, Learnt, UpTo, Known, Unknown, Procs
<1>11. StampsAll'
  BY <1>1 DEF Inv, Types, StampsAll, NoFailure, Procs
<1>12. NoCopy'
  BY <1>1 DEF Inv, Types, NoCopy, Procs
<1>13. ApiServes'
  BY <1>1, <1>2, ProcSeen DEF Inv, Types, CountsOn, Places, Exclusion, Whole, StampsAll, NoCopy,
      ApiServes, NoFailure, AtLeast, Held, Carries, Own, Asking, Readable, Procs
<1> QED BY <1>2, <1>3, <1>4, <1>5, <1>6, <1>7, <1>8, <1>9, <1>10, <1>11, <1>12, <1>13 DEF Inv

LEMMA SeizeInv ==
  ASSUME Inv, NEW t \in Threads, Seize(t)
  PROVE  Inv' /\ Held
<1>1. /\ UNCHANGED <<inputs, file, known, backoff, refreshing, lockVars, count, readers>> /\ CountsOn
      /\ proc[t].pc = "seize" /\ open' = {} /\ owner[Job] = Nobody /\ readers[Job] = {}
      /\ owner' \in [{Job} -> Threads \cup {Nobody}] /\ owner'[Job] = t
      /\ Alone(t) /\ SameRole(t) /\ SameLearnt(t) /\ SameBuild(t) /\ SameGraph(t) /\ SameView(t)
      /\ proc'[t].pc \in {"local", "build"}
  <2>1. t \in Procs /\ {"local", "build"} \subseteq Pcs
    BY DEF Pcs, Procs
  <2>2. /\ open' = {} /\ owner[Job] = Nobody /\ readers[Job] = {} /\ readers' = readers
        /\ owner' \in [{Job} -> Threads \cup {Nobody}] /\ owner'[Job] = t
    BY DEF Inv, Types, Access!Seize, Seize
  <2> QED BY <2>1, <2>2, GotoStep, WorksStep DEF Inv, Seize
<1>2. Held
  <2>1. Holds = file.api
    BY <1>1 DEF Holds
  <2>2. proc'[t].graph = Absent /\ Holds' = IF file.api = Torn THEN proc'[t].graph ELSE file.api
    BY <1>1 DEF Holds, Inv, Whole, Carries
  <2> QED BY <1>1, <2>1, <2>2 DEF Held, Readable, Stamped, AtLeast
<1>3. CopyLock' /\ Dated' /\ StampsAll' /\ CopyServes' /\ NoCopy'
  BY <1>1, CalmStep DEF Inv, Types, Places, Whole, Calm, Asking, Carries, Procs, CountsOn
<1>4. Types'
  BY <1>1 DEF Inv, Types, Known, CountsOn
<1>5. Places'
  BY <1>1 DEF Inv, Types, Places, ThreadPcs, CliPcs, Own, Asking, Building, Procs
<1>6. Exclusion'
  BY <1>1 DEF Inv, Types, Places, Exclusion, Own, Asking, Procs
<1>7. RefreshLock'
  BY <1>1 DEF Inv, Types, Places, Exclusion, RefreshLock, Own, Asking, Procs
<1>8. Whole'
  BY <1>1, <1>2, ProcSeen DEF Inv, Types, Places, Exclusion, Whole, Held, Carries, Own, Asking,
      Readable, Procs
<1>9. Learnt'
  BY <1>1 DEF Inv, Types, Learnt, UpTo, Known, Unknown, Procs
<1>10. ApiServes'
  BY <1>1, <1>2, ProcSeen DEF Inv, Types, CountsOn, Places, Exclusion, Whole, StampsAll, NoCopy,
      ApiServes, NoFailure, AtLeast, Held, Carries, Own, Asking, Readable, Procs
<1> QED BY <1>2, <1>3, <1>4, <1>5, <1>6, <1>7, <1>8, <1>9, <1>10 DEF Inv

LEMMA CheckLocalInv ==
  ASSUME Inv, NEW t \in Threads, CheckLocal(t)
  PROVE  Inv' /\ Held
<1>1. /\ UNCHANGED <<inputs, accessVars, known, backoff, refreshing, lockVars, count>> /\ CountsOn
      /\ proc[t].pc = "local" /\ Alone(t) /\ SameRole(t) /\ SameLearnt(t) /\ SameBuild(t) /\ SameView(t)
      /\ file' \in [api : Content, cli : Content] /\ file'.cli = file.cli
      /\ \/ Current(file.api, Goal(t)) /\ proc'[t].pc = "done" /\ SameGraph(t) /\ file' = file
         \/ proc'[t].pc = "adopt" /\ SameGraph(t) /\ file' = file
         \/ /\ proc'[t].pc = "downloaded" /\ proc'[t].graph = file.api /\ file'.api = Torn
  <2>1. t \in Procs /\ {"done", "adopt", "downloaded"} \subseteq Pcs /\ file.api \in Content /\ Torn \in Content
    BY Contents DEF Pcs, Procs, Inv, Types
  <2>2. CASE Current(file.api, Goal(t)) /\ Goto(t, "done") /\ file' = file
    BY <2>1, <2>2, GotoStep, WorksStep DEF Inv, Types, CheckLocal
  <2>3. CASE Goto(t, "adopt") /\ file' = file
    BY <2>1, <2>3, GotoStep, WorksStep DEF Inv, Types, CheckLocal
  <2>4. CASE Keeps(t, "downloaded", file.api) /\ WriteInPlace(Torn)
    <3>1. file' \in [api : Content, cli : Content] /\ file'.cli = file.cli /\ file'.api = Torn
      BY <2>1, <2>4 DEF Inv, Types, WriteInPlace
    <3> QED BY <2>1, <2>4, <3>1, KeepsStep, WorksStep DEF Inv, CheckLocal
  <2> QED BY <2>2, <2>3, <2>4 DEF CheckLocal
<1>2. Held
  <2>1. owner[Job] = t /\ owner'[Job] = t /\ t # Nobody
    BY <1>1 DEF Inv, Exclusion, Own
  <2>2. /\ Holds = IF file.api = Torn THEN proc[t].graph ELSE file.api
        /\ Holds' = IF file'.api = Torn THEN proc'[t].graph ELSE file'.api
    BY <2>1 DEF Holds
  <2> QED BY <1>1, <2>1, <2>2 DEF Inv, Held, Types, CountsOn, Whole, Carries, Readable, Stamped,
      StampsAll, NoCopy, NoFailure, ApiServes, AtLeast
<1>3. CopyLock' /\ CopyServes'
  BY <1>1, ThreadStep DEF Inv, Types, Procs, CountsOn
<1>4. Types'
  BY <1>1 DEF Inv, Types, Known, CountsOn
<1>5. Places'
  BY <1>1 DEF Inv, Types, Places, ThreadPcs, CliPcs, Own, Asking, Building, Procs
<1>6. Exclusion'
  BY <1>1 DEF Inv, Types, Places, Exclusion, Own, Asking, Procs
<1>7. RefreshLock'
  BY <1>1 DEF Inv, Types, Places, Exclusion, RefreshLock, Own, Asking, Procs
<1>8. Whole'
  BY <1>1, <1>2, OwnerStep DEF Inv, Types, Whole, Own, Carries, Readable, Procs, Current, Stamped
<1>9. Dated'
  BY <1>1, DatedStep, Plain DEF Inv, Types, Dated, Honest, Known, Procs
<1>10. Learnt'
  BY <1>1 DEF Inv, Types, Learnt, UpTo, Known, Unknown, Procs
<1>11. StampsAll'
  BY <1>1 DEF Inv, Types, StampsAll, NoFailure, Procs
<1>12. NoCopy'
  BY <1>1 DEF Inv, Types, NoCopy, Procs
<1>13. ApiServes'
  BY <1>1, <1>2, ProcSeen DEF Inv, Types, CountsOn, Places, Exclusion, Whole, StampsAll, NoCopy,
      ApiServes, NoFailure, AtLeast, Held, Carries, Own, Asking, Readable, Procs, Current, Goal,
      Stamped, Graph, Known, RefreshLock
<1> QED BY <1>2, <1>3, <1>4, <1>5, <1>6, <1>7, <1>8, <1>9, <1>10, <1>11, <1>12, <1>13 DEF Inv

LEMMA DownloadedInv ==
  ASSUME Inv, NEW t \in Threads, Downloaded(t)
  PROVE  Inv' /\ Held
<1>1. /\ UNCHANGED <<inputs, accessVars, known, backoff, refreshing, lockVars, count>> /\ CountsOn
      /\ proc[t].pc = "downloaded" /\ Alone(t) /\ SameRole(t) /\ SameLearnt(t) /\ SameBuild(t)
      /\ SameView(t)
      /\ file' \in [api : Content, cli : Content] /\ file'.cli = file.cli /\ file'.api = proc[t].graph
      /\ proc'[t].pc = "adopt" /\ proc'[t].graph = Absent
  <2>1. t \in Procs /\ "adopt" \in Pcs /\ proc[t].graph \in Content /\ Absent \in Content
    BY Contents DEF Pcs, Procs, Inv, Types, ProcState
  <2>2. file' \in [api : Content, cli : Content] /\ file'.cli = file.cli /\ file'.api = proc[t].graph
    BY <2>1 DEF Inv, Types, WriteInPlace, Downloaded
  <2> QED BY <2>1, <2>2, KeepsStep, WorksStep DEF Inv, Downloaded
<1>2. Held
  <2>1. owner[Job] = t /\ owner'[Job] = t /\ t # Nobody
    BY <1>1 DEF Inv, Exclusion, Own
  <2>2. /\ Holds = IF file.api = Torn THEN proc[t].graph ELSE file.api
        /\ Holds' = IF file'.api = Torn THEN proc'[t].graph ELSE file'.api
    BY <2>1 DEF Holds
  <2> QED BY <1>1, <2>1, <2>2 DEF Inv, Held, Types, CountsOn, Whole, Carries, Readable, Stamped,
      StampsAll, NoCopy, NoFailure, ApiServes, AtLeast
<1>3. CopyLock' /\ CopyServes'
  BY <1>1, ThreadStep DEF Inv, Types, Procs, CountsOn
<1>4. Types'
  BY <1>1 DEF Inv, Types, Known, CountsOn
<1>5. Places'
  BY <1>1 DEF Inv, Types, Places, ThreadPcs, CliPcs, Own, Asking, Building, Procs
<1>6. Exclusion'
  BY <1>1 DEF Inv, Types, Places, Exclusion, Own, Asking, Procs
<1>7. RefreshLock'
  BY <1>1 DEF Inv, Types, Places, Exclusion, RefreshLock, Own, Asking, Procs
<1>8. Whole'
  BY <1>1, <1>2, OwnerStep DEF Inv, Types, Whole, Own, Carries, Readable, Procs
<1>9. Dated'
  BY <1>1, DatedStep, Plain DEF Inv, Types, Dated, Honest, Known, Procs
<1>10. Learnt'
  BY <1>1 DEF Inv, Types, Learnt, UpTo, Known, Unknown, Procs
<1>11. StampsAll'
  BY <1>1 DEF Inv, Types, StampsAll, NoFailure, Procs
<1>12. NoCopy'
  BY <1>1 DEF Inv, Types, NoCopy, Procs
<1>13. ApiServes'
  BY <1>1, <1>2, ProcSeen DEF Inv, Types, CountsOn, Places, Exclusion, Whole, StampsAll, NoCopy,
      ApiServes, NoFailure, AtLeast, Held, Carries, Own, Asking, Readable, Procs
<1> QED BY <1>2, <1>3, <1>4, <1>5, <1>6, <1>7, <1>8, <1>9, <1>10, <1>11, <1>12, <1>13 DEF Inv

LEMMA AdoptInv ==
  ASSUME Inv, NEW t \in Threads, Adopt(t)
  PROVE  Inv' /\ Held
<1>1. /\ UNCHANGED <<inputs, accessVars, known, backoff, refreshing, lockVars>> /\ CountsOn
      /\ proc[t].pc = "adopt"
      /\ file' \in [api : Content, cli : Content] /\ file'.cli = file.cli
      /\ proc' \in [Procs -> ProcState] /\ proc'[t].view = proc[t].view
      /\ \A q \in Procs : /\ q # t => proc'[q].pc = proc[q].pc
                          /\ SameRole(q) /\ SameLearnt(q) /\ SameBuild(q) /\ SameGraph(q)
                          /\ proc[q].view # Theirs => SameView(q)
                          /\ q # t /\ At(q, "idle") => proc'[q] = proc[q]
      /\ \/ proc'[t].pc = "drop" /\ Current(file.cli, Goal(t)) /\ file'.api = file.cli
         \/ proc'[t].pc = "build" /\ file' = file
  <2>1. t \in Procs /\ {"drop", "build"} \subseteq Pcs /\ file.cli \in Content /\ proc[t].view # Theirs
    BY DEF Pcs, Procs, Inv, Types, Places
  <2>2. CASE Current(file.cli, Goal(t)) /\ MoveOver(t, file.cli, "drop") /\ Works
    <3>1. \A q \in Procs : q # t /\ At(q, "idle") => proc'[q] = proc[q]
      BY <2>2, IdleFields DEF MoveOver, Inv, Places
    <3> QED BY <2>1, <2>2, <3>1, MoveOverStep, WorksStep DEF Inv, Adopt
  <2>3. CASE Goto(t, "build") /\ UNCHANGED file
    <3>1. CountsOn
      BY <2>3, FailsStep, WorksStep DEF Inv, Adopt
    <3> QED BY <2>1, <2>3, <3>1, GotoStep DEF Inv, Adopt, Types
  <2> QED BY <2>2, <2>3 DEF Adopt
<1>2. Held
  <2>1. owner[Job] = t /\ owner'[Job] = t /\ t # Nobody
    BY <1>1 DEF Inv, Exclusion, Own
  <2>2. /\ Holds = IF file.api = Torn THEN proc[t].graph ELSE file.api
        /\ Holds' = IF file'.api = Torn THEN proc'[t].graph ELSE file'.api
    BY <2>1 DEF Holds
  <2> QED BY <1>1, <2>1, <2>2 DEF Inv, Held, Types, CountsOn, Whole, Carries, Readable, Stamped,
      StampsAll, NoCopy, NoFailure, ApiServes, AtLeast, Current
<1>3. CopyLock' /\ CopyServes'
  BY <1>1, ThreadStep DEF Inv, Types, Procs, CountsOn
<1>4. Types'
  BY <1>1 DEF Inv, Types, Known, CountsOn, Current, Stamped
<1>5. Places'
  BY <1>1 DEF Inv, Types, Places, ThreadPcs, CliPcs, Own, Asking, Building, Procs, Current, Stamped
<1>6. Exclusion'
  BY <1>1 DEF Inv, Types, Places, Exclusion, Own, Asking, Procs, Current, Stamped
<1>7. RefreshLock'
  BY <1>1 DEF Inv, Types, Places, Exclusion, RefreshLock, Own, Asking, Procs, Current, Stamped
<1>8. Whole'
  BY <1>1, <1>2, OwnerStep DEF Inv, Types, Whole, Own, Carries, Readable, Procs, Current, Stamped
<1>9. Dated'
  BY <1>1, DatedStep, Plain DEF Inv, Types, Dated, Honest, Known, Procs, Current, Stamped
<1>10. Learnt'
  BY <1>1 DEF Inv, Types, Learnt, UpTo, Known, Unknown, Procs, Current, Stamped
<1>11. StampsAll'
  BY <1>1 DEF Inv, Types, StampsAll, NoFailure, Procs, CountsOn, Current, Stamped
<1>12. NoCopy'
  BY <1>1 DEF Inv, Types, NoCopy, Procs, CountsOn, Current, Stamped
<1>13. ApiServes'
  BY <1>1, <1>2, ProcSeen DEF Inv, Types, CountsOn, Places, Exclusion, Whole, StampsAll, NoCopy,
      ApiServes, NoFailure, AtLeast, Held, Carries, Own, Asking, Readable, Procs, Current, Stamped
<1> QED BY <1>2, <1>3, <1>4, <1>5, <1>6, <1>7, <1>8, <1>9, <1>10, <1>11, <1>12, <1>13 DEF Inv

LEMMA DropInv ==
  ASSUME Inv, NEW t \in Threads, Drop(t)
  PROVE  Inv' /\ Held
<1>1. /\ UNCHANGED <<inputs, accessVars, known, backoff, refreshing, lockVars, count>> /\ CountsOn
      /\ proc[t].pc = "drop" /\ Alone(t) /\ SameRole(t) /\ SameLearnt(t) /\ SameBuild(t)
      /\ SameGraph(t) /\ SameView(t)
      /\ file' \in [api : Content, cli : Content] /\ file'.cli \in {file.cli, Absent}
      /\ file'.api = file.api
      /\ proc'[t].pc = "done"
  <2>1. t \in Procs /\ "done" \in Pcs /\ Absent \in Content
    BY Contents DEF Pcs, Procs
  <2>2. file' \in [api : Content, cli : Content] /\ file'.cli \in {file.cli, Absent} /\ file'.api = file.api
    BY <2>1 DEF Inv, Types, CopyRemoved, Drop
  <2> QED BY <2>1, <2>2, GotoStep, WorksStep DEF Inv, Drop
<1>2. Held
  <2>1. owner[Job] = t /\ owner'[Job] = t /\ t # Nobody
    BY <1>1 DEF Inv, Exclusion, Own
  <2>2. /\ Holds = IF file.api = Torn THEN proc[t].graph ELSE file.api
        /\ Holds' = IF file'.api = Torn THEN proc'[t].graph ELSE file'.api
    BY <2>1 DEF Holds
  <2> QED BY <1>1, <2>1, <2>2 DEF Inv, Held, Types, CountsOn, Whole, Carries, Readable, Stamped,
      StampsAll, NoCopy, NoFailure, ApiServes, AtLeast
<1>3. CopyLock' /\ CopyServes'
  BY <1>1, ThreadStep DEF Inv, Types, Procs, CountsOn
<1>4. Types'
  BY <1>1 DEF Inv, Types, Known, CountsOn
<1>5. Places'
  BY <1>1 DEF Inv, Types, Places, ThreadPcs, CliPcs, Own, Asking, Building, Procs
<1>6. Exclusion'
  BY <1>1 DEF Inv, Types, Places, Exclusion, Own, Asking, Procs
<1>7. RefreshLock'
  BY <1>1 DEF Inv, Types, Places, Exclusion, RefreshLock, Own, Asking, Procs
<1>8. Whole'
  BY <1>1, <1>2, OwnerStep DEF Inv, Types, Whole, Own, Carries, Readable, Procs
<1>9. Dated'
  BY <1>1, DatedStep, Plain DEF Inv, Types, Dated, Honest, Known, Procs
<1>10. Learnt'
  BY <1>1 DEF Inv, Types, Learnt, UpTo, Known, Unknown, Procs
<1>11. StampsAll'
  BY <1>1 DEF Inv, Types, StampsAll, NoFailure, Procs
<1>12. NoCopy'
  BY <1>1 DEF Inv, Types, NoCopy, Procs
<1>13. ApiServes'
  BY <1>1, <1>2, ProcSeen DEF Inv, Types, CountsOn, Places, Exclusion, Whole, StampsAll, NoCopy,
      ApiServes, NoFailure, AtLeast, Held, Carries, Own, Asking, Readable, Procs
<1> QED BY <1>2, <1>3, <1>4, <1>5, <1>6, <1>7, <1>8, <1>9, <1>10, <1>11, <1>12, <1>13 DEF Inv

LEMMA PlaceInv ==
  ASSUME Inv, NEW t \in Threads, Place(t)
  PROVE  Inv' /\ Held
<1>1. /\ UNCHANGED <<inputs, accessVars, known, refreshing, lockVars, count>> /\ CountsOn
      /\ proc[t].pc = "place" /\ backoff' = ~Stamped(proc[t].graph)
      /\ file' \in [api : Content, cli : Content] /\ file'.cli = file.cli
      /\ proc' \in [Procs -> ProcState] /\ proc'[t].view = proc[t].view
      /\ \A q \in Procs : /\ q # t => proc'[q].pc = proc[q].pc
                          /\ SameRole(q) /\ SameLearnt(q) /\ SameBuild(q) /\ SameGraph(q)
                          /\ proc[q].view # Theirs => SameView(q)
                          /\ q # t /\ At(q, "idle") => proc'[q] = proc[q]
      /\ \/ proc'[t].pc = "upload" /\ Stamped(proc[t].graph) /\ file'.api = proc[t].graph
         \/ proc'[t].pc = "done" /\ ~Stamped(proc[t].graph) /\ ~Stamped(file.api) /\ file'.api = proc[t].graph
         \/ proc'[t].pc = "done" /\ ~Stamped(proc[t].graph) /\ Stamped(file.api) /\ file' = file
  <2>1. t \in Procs /\ {"upload", "done"} \subseteq Pcs /\ proc[t].graph \in Content /\ proc[t].view # Theirs
    BY DEF Pcs, Procs, Inv, Types, ProcState, Places
  <2>2. \/ Stamped(proc[t].graph) /\ MoveOver(t, proc[t].graph, "upload")
        \/ ~Stamped(proc[t].graph) /\ ~Stamped(file.api) /\ MoveOver(t, proc[t].graph, "done")
        \/ ~Stamped(proc[t].graph) /\ Stamped(file.api) /\ Goto(t, "done") /\ UNCHANGED file
    BY DEF Place, Replaces
  <2>3. CASE Stamped(proc[t].graph) /\ MoveOver(t, proc[t].graph, "upload")
    <3>1. \A q \in Procs : q # t /\ At(q, "idle") => proc'[q] = proc[q]
      BY <2>3, IdleFields DEF MoveOver, Inv, Places
    <3> QED BY <2>1, <2>3, <3>1, MoveOverStep, WorksStep DEF Inv, Place
  <2>4. CASE ~Stamped(proc[t].graph) /\ ~Stamped(file.api) /\ MoveOver(t, proc[t].graph, "done")
    <3>1. \A q \in Procs : q # t /\ At(q, "idle") => proc'[q] = proc[q]
      BY <2>4, IdleFields DEF MoveOver, Inv, Places
    <3> QED BY <2>1, <2>4, <3>1, MoveOverStep, WorksStep DEF Inv, Place
  <2>5. CASE ~Stamped(proc[t].graph) /\ Stamped(file.api) /\ Goto(t, "done") /\ UNCHANGED file
    BY <2>1, <2>5, GotoStep, WorksStep DEF Inv, Types, Place
  <2> QED BY <2>2, <2>3, <2>4, <2>5
<1>2. Held
  <2>1. owner[Job] = t /\ owner'[Job] = t /\ t # Nobody
    BY <1>1 DEF Inv, Exclusion, Own
  <2>2. /\ Holds = IF file.api = Torn THEN proc[t].graph ELSE file.api
        /\ Holds' = IF file'.api = Torn THEN proc'[t].graph ELSE file'.api
    BY <2>1 DEF Holds
  <2> QED BY <1>1, <2>1, <2>2 DEF Inv, Held, Types, CountsOn, Whole, Carries, Readable, Stamped,
      StampsAll, NoCopy, NoFailure, ApiServes, AtLeast, Graph, Known, Procs
<1>3. CopyLock' /\ CopyServes'
  BY <1>1, ThreadStep DEF Inv, Types, Procs, CountsOn
<1>4. Types'
  BY <1>1 DEF Inv, Types, Known, CountsOn, Stamped
<1>5. Places'
  BY <1>1 DEF Inv, Types, Places, ThreadPcs, CliPcs, Own, Asking, Building, Procs, Stamped
<1>6. Exclusion'
  BY <1>1 DEF Inv, Types, Places, Exclusion, Own, Asking, Procs, Stamped
<1>7. RefreshLock'
  BY <1>1 DEF Inv, Types, Places, Exclusion, RefreshLock, Own, Asking, Procs, Stamped
<1>8. Whole'
  BY <1>1, <1>2, OwnerStep DEF Inv, Types, Whole, Own, Carries, Readable, Procs, Stamped
<1>9. Dated'
  BY <1>1, DatedStep, Plain DEF Inv, Types, Dated, Honest, Known, Procs, Stamped
<1>10. Learnt'
  BY <1>1 DEF Inv, Types, Learnt, UpTo, Known, Unknown, Procs, Stamped
<1>11. StampsAll'
  BY <1>1 DEF Inv, Types, StampsAll, NoFailure, Procs, Whole, Readable, Stamped
<1>12. NoCopy'
  BY <1>1 DEF Inv, Types, NoCopy, Procs, Stamped
<1>13. ApiServes'
  BY <1>1, <1>2, ProcSeen DEF Inv, Types, CountsOn, Places, Exclusion, Whole, StampsAll, NoCopy,
      ApiServes, NoFailure, AtLeast, Held, Carries, Own, Asking, Readable, Procs, Stamped
<1> QED BY <1>2, <1>3, <1>4, <1>5, <1>6, <1>7, <1>8, <1>9, <1>10, <1>11, <1>12, <1>13 DEF Inv

LEMMA UploadInv ==
  ASSUME Inv, NEW t \in Threads, Upload(t)
  PROVE  Inv' /\ Held
<1>1. /\ UNCHANGED <<inputs, accessVars, known, backoff, refreshing, lockVars, count>> /\ CountsOn
      /\ proc[t].pc = "upload" /\ Alone(t) /\ SameRole(t) /\ SameLearnt(t) /\ SameBuild(t)
      /\ SameGraph(t) /\ SameView(t)
      /\ file' \in [api : Content, cli : Content] /\ file'.cli = file.cli /\ file'.api = Torn
      /\ proc'[t].pc = "uploaded"
  <2>1. t \in Procs /\ "uploaded" \in Pcs /\ Torn \in Content
    BY Contents DEF Pcs, Procs
  <2>2. file' \in [api : Content, cli : Content] /\ file'.cli = file.cli /\ file'.api = Torn
    BY <2>1 DEF Inv, Types, WriteInPlace, Upload
  <2> QED BY <2>1, <2>2, GotoStep, WorksStep DEF Inv, Upload
<1>2. Held
  <2>1. owner[Job] = t /\ owner'[Job] = t /\ t # Nobody
    BY <1>1 DEF Inv, Exclusion, Own
  <2>2. /\ Holds = IF file.api = Torn THEN proc[t].graph ELSE file.api
        /\ Holds' = IF file'.api = Torn THEN proc'[t].graph ELSE file'.api
    BY <2>1 DEF Holds
  <2> QED BY <1>1, <2>1, <2>2 DEF Inv, Held, Types, CountsOn, Whole, Carries, Readable, Stamped,
      StampsAll, NoCopy, NoFailure, ApiServes, AtLeast
<1>3. CopyLock' /\ CopyServes'
  BY <1>1, ThreadStep DEF Inv, Types, Procs, CountsOn
<1>4. Types'
  BY <1>1 DEF Inv, Types, Known, CountsOn
<1>5. Places'
  BY <1>1 DEF Inv, Types, Places, ThreadPcs, CliPcs, Own, Asking, Building, Procs
<1>6. Exclusion'
  BY <1>1 DEF Inv, Types, Places, Exclusion, Own, Asking, Procs
<1>7. RefreshLock'
  BY <1>1 DEF Inv, Types, Places, Exclusion, RefreshLock, Own, Asking, Procs
<1>8. Whole'
  BY <1>1, <1>2, OwnerStep DEF Inv, Types, Whole, Own, Carries, Readable, Procs
<1>9. Dated'
  BY <1>1, DatedStep, Plain DEF Inv, Types, Dated, Honest, Known, Procs, Stamped
<1>10. Learnt'
  BY <1>1 DEF Inv, Types, Learnt, UpTo, Known, Unknown, Procs
<1>11. StampsAll'
  BY <1>1 DEF Inv, Types, StampsAll, NoFailure, Procs
<1>12. NoCopy'
  BY <1>1 DEF Inv, Types, NoCopy, Procs
<1>13. ApiServes'
  BY <1>1, <1>2, ProcSeen DEF Inv, Types, CountsOn, Places, Exclusion, Whole, StampsAll, NoCopy,
      ApiServes, NoFailure, AtLeast, Held, Carries, Own, Asking, Readable, Procs
<1> QED BY <1>2, <1>3, <1>4, <1>5, <1>6, <1>7, <1>8, <1>9, <1>10, <1>11, <1>12, <1>13 DEF Inv

LEMMA UploadedInv ==
  ASSUME Inv, NEW t \in Threads, Uploaded(t)
  PROVE  Inv' /\ Held
<1>1. /\ UNCHANGED <<inputs, accessVars, known, backoff, refreshing, lockVars, count>> /\ CountsOn
      /\ proc[t].pc = "uploaded" /\ Alone(t) /\ SameRole(t) /\ SameLearnt(t) /\ SameBuild(t)
      /\ SameView(t)
      /\ file' \in [api : Content, cli : Content] /\ file'.cli = file.cli /\ file'.api = proc[t].graph
      /\ proc'[t].pc = "done" /\ proc'[t].graph = Absent
  <2>1. t \in Procs /\ "done" \in Pcs /\ proc[t].graph \in Content /\ Absent \in Content
    BY Contents DEF Pcs, Procs, Inv, Types, ProcState
  <2>2. file' \in [api : Content, cli : Content] /\ file'.cli = file.cli /\ file'.api = proc[t].graph
    BY <2>1 DEF Inv, Types, WriteInPlace, Uploaded
  <2> QED BY <2>1, <2>2, KeepsStep, WorksStep DEF Inv, Uploaded
<1>2. Held
  <2>1. owner[Job] = t /\ owner'[Job] = t /\ t # Nobody
    BY <1>1 DEF Inv, Exclusion, Own
  <2>2. /\ Holds = IF file.api = Torn THEN proc[t].graph ELSE file.api
        /\ Holds' = IF file'.api = Torn THEN proc'[t].graph ELSE file'.api
    BY <2>1 DEF Holds
  <2> QED BY <1>1, <2>1, <2>2 DEF Inv, Held, Types, CountsOn, Whole, Carries, Readable, Stamped,
      StampsAll, NoCopy, NoFailure, ApiServes, AtLeast
<1>3. CopyLock' /\ CopyServes'
  BY <1>1, ThreadStep DEF Inv, Types, Procs, CountsOn
<1>4. Types'
  BY <1>1 DEF Inv, Types, Known, CountsOn
<1>5. Places'
  BY <1>1 DEF Inv, Types, Places, ThreadPcs, CliPcs, Own, Asking, Building, Procs
<1>6. Exclusion'
  BY <1>1 DEF Inv, Types, Places, Exclusion, Own, Asking, Procs
<1>7. RefreshLock'
  BY <1>1 DEF Inv, Types, Places, Exclusion, RefreshLock, Own, Asking, Procs
<1>8. Whole'
  BY <1>1, <1>2, OwnerStep DEF Inv, Types, Whole, Own, Carries, Readable, Procs
<1>9. Dated'
  BY <1>1, DatedStep, Plain DEF Inv, Types, Dated, Honest, Known, Procs
<1>10. Learnt'
  BY <1>1 DEF Inv, Types, Learnt, UpTo, Known, Unknown, Procs
<1>11. StampsAll'
  BY <1>1 DEF Inv, Types, StampsAll, NoFailure, Procs
<1>12. NoCopy'
  BY <1>1 DEF Inv, Types, NoCopy, Procs
<1>13. ApiServes'
  BY <1>1, <1>2, ProcSeen DEF Inv, Types, CountsOn, Places, Exclusion, Whole, StampsAll, NoCopy,
      ApiServes, NoFailure, AtLeast, Held, Carries, Own, Asking, Readable, Procs
<1> QED BY <1>2, <1>3, <1>4, <1>5, <1>6, <1>7, <1>8, <1>9, <1>10, <1>11, <1>12, <1>13 DEF Inv

LEMMA DonePrepareInv ==
  ASSUME Inv, NEW t \in Threads, Done(t), proc[t].mode = "prepare"
  PROVE  Inv' /\ Held
<1>1. /\ UNCHANGED <<inputs, file, known, lockVars, count>> /\ CountsOn
      /\ proc[t].pc = "done" /\ owner[Job] = t /\ owner' \in [{Job} -> Threads \cup {Nobody}]
      /\ owner'[Job] = Nobody
      /\ readers[Job] = {} /\ open = {} /\ Alone(t)
      /\ open' = {Job} /\ readers' \in [{Job} -> SUBSET Threads] /\ readers'[Job] = {t}
      /\ backoff' = backoff /\ refreshing' = refreshing
      /\ SameRole(t) /\ SameLearnt(t) /\ SameBuild(t) /\ SameView(t)
      /\ proc'[t].pc = "leased" /\ proc'[t].graph = Absent
  <2>1. t \in Procs /\ "leased" \in Pcs /\ Absent \in Content
    BY Contents DEF Pcs, Procs
  <2>2. Access!OpenAndLease(t, Job) /\ Keeps(t, "leased", Absent) /\ proc[t].pc = "done"
    BY DEF Done
  <2>3. /\ owner[Job] = t /\ readers[Job] = {} /\ open = {}
    BY <2>2 DEF Inv, Exclusion, Own, Access!OpenAndLease
  <2>4. /\ owner' \in [{Job} -> Threads \cup {Nobody}] /\ owner'[Job] = Nobody
        /\ open' = {Job} /\ readers' \in [{Job} -> SUBSET Threads] /\ readers'[Job] = {t}
    BY <2>2, <2>3 DEF Inv, Types, Access!OpenAndLease
  <2>5. UNCHANGED <<inputs, file, known, lockVars, count, backoff, refreshing>>
    BY DEF Done, Inv, Types
  <2> QED BY <2>1, <2>2, <2>3, <2>4, <2>5, KeepsStep, WorksStep DEF Inv
<1>2. Held /\ Holds = file.api /\ Holds' = file.api
  <2>1. owner[Job] = t /\ Readable(file.api) /\ file.api # Torn
    BY <1>1 DEF Inv, Exclusion, Own, Whole, Readable, Stamped
  <2>2. Holds = file.api /\ Holds' = file.api
    BY <1>1, <2>1 DEF Holds
  <2> QED BY <1>1, <2>2 DEF Held, Readable, Stamped, AtLeast
<1>3. CopyLock' /\ CopyServes'
  BY <1>1, ThreadStep DEF Inv, Types, Procs, CountsOn
<1>4. Types'
  BY <1>1 DEF Inv, Types, Known, CountsOn
<1>5. Places'
  BY <1>1 DEF Inv, Types, Places, ThreadPcs, CliPcs, Own, Asking, Building, Procs
<1>6. Exclusion'
  BY <1>1 DEF Inv, Types, Places, Exclusion, Own, Asking, Procs
<1>7. RefreshLock'
  BY <1>1 DEF Inv, Types, Places, Exclusion, RefreshLock, Own, Asking, Procs
<1>8. Whole'
  BY <1>1, <1>2, ProcSeen DEF Inv, Types, Places, Exclusion, Whole, Held, Carries, Own, Asking,
      Readable, Procs
<1>9. Dated'
  BY <1>1, DatedStep, Plain DEF Inv, Types, Dated, Honest, Known, Procs
<1>10. Learnt'
  BY <1>1 DEF Inv, Types, Learnt, UpTo, Known, Unknown, Procs
<1>11. StampsAll'
  BY <1>1 DEF Inv, Types, StampsAll, NoFailure, Procs
<1>12. NoCopy'
  BY <1>1 DEF Inv, Types, NoCopy, Procs
<1>13. ApiServes'
  BY <1>1, <1>2, ProcSeen DEF Inv, Types, CountsOn, Places, Exclusion, Whole, StampsAll, NoCopy,
      ApiServes, NoFailure, AtLeast, Held, Carries, Own, Asking, Readable, Procs
<1> QED BY <1>2, <1>3, <1>4, <1>5, <1>6, <1>7, <1>8, <1>9, <1>10, <1>11, <1>12, <1>13 DEF Inv

LEMMA DoneRefreshInv ==
  ASSUME Inv, NEW t \in Threads, Done(t), proc[t].mode = "refresh"
  PROVE  Inv' /\ Held
<1>1. /\ UNCHANGED <<inputs, file, known, lockVars, count>> /\ CountsOn
      /\ proc[t].pc = "done" /\ owner[Job] = t /\ owner' \in [{Job} -> Threads \cup {Nobody}]
      /\ owner'[Job] = Nobody
      /\ readers[Job] = {} /\ open = {} /\ Alone(t)
      /\ open' = open /\ readers' = readers
      /\ backoff' = (backoff \/ proc[t].graph = Partial) /\ refreshing' \in {refreshing, Nobody} /\ refreshing' # t
      /\ SameLearnt(t) /\ SameBuild(t) /\ SameView(t)
      /\ proc'[t].pc = "lease" /\ proc'[t].want = "read" /\ proc'[t].mode = proc[t].mode
      /\ proc'[t].refreshed = TRUE /\ proc'[t].graph = Absent
  <2>1. t \in Procs /\ "lease" \in Pcs /\ Absent \in Content
    BY Contents DEF Pcs, Procs
  <2>2. /\ Access!Yield(t, Job) /\ proc[t].pc = "done"
        /\ Becomes(t, [proc[t] EXCEPT !.pc = "lease", !.want = "read",
                                        !.refreshed = TRUE, !.graph = Absent])
    BY DEF Done
  <2>3. /\ owner[Job] = t /\ readers[Job] = {} /\ open = {}
    BY <2>2 DEF Inv, Exclusion, Own, Access!Yield
  <2>4. /\ owner' \in [{Job} -> Threads \cup {Nobody}] /\ owner'[Job] = Nobody
        /\ open' = open /\ readers' = readers
    BY <2>2, <2>3 DEF Inv, Types, Access!Yield
  <2>5. /\ UNCHANGED <<inputs, file, known, lockVars, count>>
        /\ backoff' = (backoff \/ proc[t].graph = Partial)
        /\ refreshing' \in {refreshing, Nobody} /\ refreshing' # t
    BY DEF Done
  <2>6. /\ Alone(t) /\ SameLearnt(t) /\ SameBuild(t) /\ SameView(t)
        /\ proc'[t].pc = "lease" /\ proc'[t].want = "read" /\ proc'[t].mode = proc[t].mode
        /\ proc'[t].refreshed = TRUE /\ proc'[t].graph = Absent
    BY <2>1, <2>2, RefreshedStep DEF Inv
  <2> QED BY <2>2, <2>3, <2>4, <2>5, <2>6, WorksStep DEF Inv
<1>2. Held /\ Holds = file.api /\ Holds' = file.api
  <2>1. owner[Job] = t /\ Readable(file.api) /\ file.api # Torn
    BY <1>1 DEF Inv, Exclusion, Own, Whole, Readable, Stamped
  <2>2. Holds = file.api /\ Holds' = file.api
    BY <1>1, <2>1 DEF Holds
  <2> QED BY <1>1, <2>2 DEF Held, Readable, Stamped, AtLeast
<1>3. CopyLock' /\ CopyServes'
  BY <1>1, ThreadStep DEF Inv, Types, Procs, CountsOn
<1>4. Types'
  BY <1>1 DEF Inv, Types, Known, CountsOn
<1>5. Places'
  BY <1>1 DEF Inv, Types, Places, ThreadPcs, CliPcs, Own, Asking, Building, Procs
<1>6. Exclusion'
  BY <1>1 DEF Inv, Types, Places, Exclusion, Own, Asking, Procs
<1>7. RefreshLock'
  BY <1>1 DEF Inv, Types, Places, Exclusion, RefreshLock, Own, Asking, Procs
<1>8. Whole'
  BY <1>1, <1>2, ProcSeen DEF Inv, Types, Places, Exclusion, Whole, Held, Carries, Own, Asking,
      Readable, Procs
<1>9. Dated'
  BY <1>1, DatedStep, Plain DEF Inv, Types, Dated, Honest, Known, Procs
<1>10. Learnt'
  BY <1>1 DEF Inv, Types, Learnt, UpTo, Known, Unknown, Procs
<1>11. StampsAll'
  BY <1>1 DEF Inv, Types, StampsAll, NoFailure, Procs
<1>12. NoCopy'
  BY <1>1 DEF Inv, Types, NoCopy, Procs
<1>13. ApiServes'
  BY <1>1, <1>2, ProcSeen DEF Inv, Types, CountsOn, Places, Exclusion, Whole, StampsAll, NoCopy,
      ApiServes, NoFailure, AtLeast, Held, Carries, Own, Asking, Readable, Procs
<1> QED BY <1>2, <1>3, <1>4, <1>5, <1>6, <1>7, <1>8, <1>9, <1>10, <1>11, <1>12, <1>13 DEF Inv

LEMMA DoneRebuildInv ==
  ASSUME Inv, NEW t \in Threads, Done(t), proc[t].mode = "rebuild"
  PROVE  Inv' /\ Held
<1>1. /\ UNCHANGED <<inputs, file, known, lockVars, count>> /\ CountsOn
      /\ proc[t].pc = "done" /\ owner[Job] = t /\ owner' \in [{Job} -> Threads \cup {Nobody}]
      /\ owner'[Job] = Nobody
      /\ readers[Job] = {} /\ open = {} /\ Alone(t)
      /\ open' = open /\ readers' = readers
      /\ backoff' = backoff /\ refreshing' = refreshing /\ proc'[t] = Idle
  <2>1. t \in Procs
    BY DEF Procs
  <2>2. Access!Yield(t, Job) /\ proc[t].pc = "done" /\ Ends(t)
    BY DEF Done
  <2>3. /\ owner[Job] = t /\ readers[Job] = {} /\ open = {}
    BY <2>2 DEF Inv, Exclusion, Own, Access!Yield
  <2>4. /\ owner' \in [{Job} -> Threads \cup {Nobody}] /\ owner'[Job] = Nobody
        /\ open' = open /\ readers' = readers
    BY <2>2, <2>3 DEF Inv, Types, Access!Yield
  <2>5. UNCHANGED <<inputs, file, known, lockVars, count, backoff, refreshing>>
    BY DEF Done, Inv, Types
  <2> QED BY <2>1, <2>2, <2>3, <2>4, <2>5, EndsStep, WorksStep DEF Inv
<1>2. Held /\ Holds = file.api /\ Holds' = file.api
  <2>1. owner[Job] = t /\ Readable(file.api) /\ file.api # Torn
    BY <1>1 DEF Inv, Exclusion, Own, Whole, Readable, Stamped
  <2>2. Holds = file.api /\ Holds' = file.api
    BY <1>1, <2>1 DEF Holds
  <2> QED BY <1>1, <2>2 DEF Held, Readable, Stamped, AtLeast
<1>3. CopyLock' /\ CopyServes'
  BY <1>1, ThreadStep DEF Inv, Types, Procs, CountsOn
<1>4. Types'
  BY <1>1, IdleFields DEF Inv, Types, Known, CountsOn
<1>5. Places'
  BY <1>1, IdleFields DEF Inv, Types, Places, ThreadPcs, CliPcs, Own, Asking, Building, Procs
<1>6. Exclusion'
  BY <1>1, IdleFields DEF Inv, Types, Places, Exclusion, Own, Asking, Procs
<1>7. RefreshLock'
  BY <1>1, IdleFields DEF Inv, Types, Places, Exclusion, RefreshLock, Own, Asking, Procs
<1>8. Whole'
  BY <1>1, <1>2, ProcSeen, IdleFields DEF Inv, Types, Places, Exclusion, Whole, Held, Carries,
      Own, Asking, Readable, Procs
<1>9. Dated'
  BY <1>1, DatedStep, Plain, IdleFields DEF Inv, Types, Dated, Honest, Known, Procs
<1>10. Learnt'
  BY <1>1, IdleFields DEF Inv, Types, Learnt, UpTo, Known, Unknown, Procs
<1>11. StampsAll'
  BY <1>1, IdleFields DEF Inv, Types, StampsAll, NoFailure, Procs
<1>12. NoCopy'
  BY <1>1, IdleFields DEF Inv, Types, NoCopy, Procs
<1>13. ApiServes'
  BY <1>1, <1>2, ProcSeen, IdleFields DEF Inv, Types, CountsOn, Places, Exclusion, Whole,
      StampsAll, NoCopy, ApiServes, NoFailure, AtLeast, Held, Carries, Own, Asking, Readable,
      Procs
<1> QED BY <1>2, <1>3, <1>4, <1>5, <1>6, <1>7, <1>8, <1>9, <1>10, <1>11, <1>12, <1>13 DEF Inv

LEMMA ThreadRaisesInv ==
  ASSUME Inv, NEW t \in Threads, BuildRaises(t)
  PROVE  Inv' /\ Held
<1>1. /\ UNCHANGED <<inputs, file, known, lockVars, open, readers, backoff>> /\ CountsOn /\ count'.failures > 0
      /\ proc[t].pc = "finish" /\ owner[Job] = t /\ owner' \in [{Job} -> Threads \cup {Nobody}]
      /\ owner'[Job] = Nobody
      /\ readers[Job] = {} /\ open = {} /\ Alone(t)
      /\ refreshing' \in {refreshing, Nobody} /\ refreshing' # t /\ proc'[t] = Idle
  <2>1. t \in Procs /\ exclusive # t
    BY DEF Procs, Inv, Types
  <2>2. Access!Yield(t, Job) /\ proc[t].pc = "finish" /\ Ends(t)
    BY DEF BuildRaises
  <2>3. /\ owner[Job] = t /\ readers[Job] = {} /\ open = {}
    BY <2>2 DEF Inv, Exclusion, Own, Access!Yield
  <2>4. /\ owner' \in [{Job} -> Threads \cup {Nobody}] /\ owner'[Job] = Nobody
        /\ open' = open /\ readers' = readers
    BY <2>2, <2>3 DEF Inv, Types, Access!Yield
  <2>5. /\ UNCHANGED <<inputs, file, known, lockVars, backoff>>
        /\ refreshing' \in {refreshing, Nobody} /\ refreshing' # t
    BY <2>1 DEF BuildRaises
  <2> QED BY <2>1, <2>2, <2>3, <2>4, <2>5, EndsStep, FailsStep DEF Inv, BuildRaises
<1>2. Held
  <2>1. proc[t].graph = Absent /\ (Holds = file.api \/ Holds = Absent) /\ Holds' = file.api
    BY <1>1 DEF Holds, Inv, Whole, Carries
  <2> QED BY <1>1, <2>1 DEF Held, Readable, Stamped, AtLeast
<1>3. CopyLock' /\ CopyServes'
  BY <1>1, ThreadStep DEF Inv, Types, Procs, CountsOn
<1>4. Types'
  BY <1>1, IdleFields DEF Inv, Types, Known, CountsOn
<1>5. Places'
  BY <1>1, IdleFields DEF Inv, Types, Places, ThreadPcs, CliPcs, Own, Asking, Building, Procs
<1>6. Exclusion'
  BY <1>1, IdleFields DEF Inv, Types, Places, Exclusion, Own, Asking, Procs
<1>7. RefreshLock'
  BY <1>1, IdleFields DEF Inv, Types, Places, Exclusion, RefreshLock, Own, Asking, Procs
<1>8. Whole'
  BY <1>1, <1>2, ProcSeen, IdleFields DEF Inv, Types, Places, Exclusion, Whole, Held, Carries,
      Own, Asking, Readable, Procs
<1>9. Dated'
  BY <1>1, DatedStep, Plain, IdleFields DEF Inv, Types, Dated, Honest, Known, Procs
<1>10. Learnt'
  BY <1>1, IdleFields DEF Inv, Types, Learnt, UpTo, Known, Unknown, Procs
<1>11. StampsAll'
  BY <1>1, IdleFields DEF Inv, Types, StampsAll, NoFailure, Procs
<1>12. NoCopy'
  BY <1>1, IdleFields DEF Inv, Types, NoCopy, Procs, CountsOn
<1>13. ApiServes'
  BY <1>1, <1>2, ProcSeen, IdleFields DEF Inv, Types, CountsOn, Places, Exclusion, Whole,
      StampsAll, NoCopy, ApiServes, NoFailure, AtLeast, Held, Carries, Own, Asking, Readable,
      Procs
<1> QED BY <1>2, <1>3, <1>4, <1>5, <1>6, <1>7, <1>8, <1>9, <1>10, <1>11, <1>12, <1>13 DEF Inv

-----------------------------------------------------------------------------
(* The steps of a build, a thread's or a run's.                            *)
Builds(p) ==
    /\ UNCHANGED <<inputs, file, accessVars, backoff, refreshing, lockVars>> /\ CountsOn
    /\ known' \in Known /\ UpTo(known')
    /\ Alone(p) /\ SameRole(p) /\ SameLearnt(p) /\ SameView(p)
    /\ \/ /\ proc[p].pc = "build" /\ proc'[p].pc = "gather" /\ SameGraph(p)
          /\ proc'[p].met = {} /\ proc'[p].digest \in {0, inputs.digest}
          /\ proc'[p].digest = 0 => count'.failures > 0
       \/ /\ proc[p].pc = "gather" /\ proc'[p].pc = "finish" /\ SameGraph(p)
          /\ proc'[p].digest = proc[p].digest /\ proc'[p].met \in {{}, {inputs.digest}}
          /\ proc'[p].met = {} => count'.failures > 0
       \/ /\ proc[p].pc = "finish" /\ proc'[p].pc = "place"
          /\ proc'[p].digest = 0 /\ proc'[p].met = {}
          /\ \/ /\ proc'[p].graph = Partial
                /\ count'.failures > 0 \/ proc[p].digest = 0 \/ proc[p].met = {}
             \/ /\ Stamped(proc'[p].graph) /\ Honest(proc'[p].graph)
                /\ proc'[p].graph.version = inputs.version /\ proc'[p].graph.digest = proc[p].digest

LEMMA BuildStep ==
  ASSUME Inv, NEW p \in Procs, DigestInputs(p) \/ Gather(p) \/ Finish(p)
  PROVE  Builds(p)
<1>1. inputs.digest \in 1 .. MaxInputs /\ inputs.version \in 1 .. MaxInputs /\ MaxInputs \in Nat
  BY DEF Inv, Types, Known
<1>2. {"gather", "finish", "place"} \subseteq Pcs /\ Partial \in Content
  BY Contents DEF Pcs
<1>3. known \in Known /\ UpTo(known)
  BY DEF Inv, Types, Learnt
<1>4. CASE DigestInputs(p)
  <2>1. proc[p].met = {}
    BY <1>4 DEF DigestInputs, Inv, Dated
  <2>2. CountsOn
    BY <1>4, FailsStep, WorksStep DEF DigestInputs, Inv
  <2>3. known' \in Known /\ UpTo(known')
    BY <1>1, <1>3, <1>4 DEF DigestInputs, Known, UpTo
  <2>4. PICK digest \in {0, inputs.digest} : Digests(p, digest) /\ (digest = 0 => count'.failures > 0)
    BY <1>1, <1>4, FailsStep DEF DigestInputs, Inv
  <2>5. /\ Alone(p) /\ proc'[p].pc = "gather" /\ proc'[p].digest = digest /\ SameRole(p)
        /\ SameLearnt(p) /\ proc'[p].met = proc[p].met /\ SameGraph(p) /\ SameView(p)
    BY <1>1, <1>2, <2>4, DigestsStep DEF Inv
  <2> QED BY <1>4, <2>1, <2>2, <2>3, <2>4, <2>5 DEF DigestInputs, Builds
<1>5. CASE Gather(p)
  <2>1. CountsOn
    BY <1>5, FailsStep, WorksStep DEF Gather, Inv
  <2>2. PICK met \in {{}, {inputs.digest}} : Meets(p, met) /\ (met = {} => count'.failures > 0)
    BY <1>5, FailsStep DEF Gather, Inv
  <2>3. met \in SUBSET (1 .. MaxInputs)
    BY <1>1
  <2>4. /\ Alone(p) /\ proc'[p].pc = "finish" /\ proc'[p].met = met /\ SameRole(p)
        /\ SameLearnt(p) /\ proc'[p].digest = proc[p].digest /\ SameGraph(p) /\ SameView(p)
    BY <1>2, <2>2, <2>3, MeetsStep DEF Inv
  <2> QED BY <1>3, <1>5, <2>1, <2>2, <2>4 DEF Gather, Builds
<1>6. CASE Finish(p)
  <2>1. CountsOn
    BY <1>6, FailsStep, WorksStep DEF Finish, Inv
  <2>2. PICK g \in {Partial, Built(p)} : Finished(p, g) /\ (g # Built(p) => count'.failures > 0)
    BY <1>6, FailsStep DEF Finish, Inv
  <2>3. \/ g = Partial /\ (count'.failures > 0 \/ proc[p].digest = 0 \/ proc[p].met = {})
        \/ /\ proc[p].digest # 0 /\ proc[p].met # {}
           /\ g = [version |-> inputs.version, digest |-> proc[p].digest,
                   read |-> proc[p].met \cup {inputs.digest}]
    BY <2>2 DEF Built
  <2>4. CASE /\ proc[p].digest # 0 /\ proc[p].met # {}
             /\ g = [version |-> inputs.version, digest |-> proc[p].digest,
                     read |-> proc[p].met \cup {inputs.digest}]
    <3>1. /\ proc[p].digest \in 1 .. MaxInputs /\ proc[p].met \subseteq 1 .. MaxInputs
          /\ proc[p].digest <= inputs.digest
          /\ proc[p].met \subseteq proc[p].digest .. inputs.digest
      BY <2>4, OfProc DEF Inv, ProcState, Dated
    <3>2. /\ g \in Graph /\ g.version = inputs.version /\ g.digest = proc[p].digest
          /\ g.read = proc[p].met \cup {inputs.digest}
      BY <1>1, <2>4, <3>1 DEF Graph
    <3>3. Honest(g) /\ Stamped(g) /\ g \in Content
      BY <1>1, <3>1, <3>2 DEF Honest, Stamped, Content
    <3>4. /\ Alone(p) /\ proc'[p].pc = "place" /\ proc'[p].digest = 0 /\ proc'[p].met = {}
          /\ proc'[p].graph = g /\ SameRole(p) /\ SameLearnt(p) /\ SameView(p)
      BY <1>2, <2>2, <3>3, FinishedStep DEF Inv
    <3>5. /\ UNCHANGED <<inputs, file, accessVars, backoff, refreshing, lockVars, known>>
          /\ proc[p].pc = "finish"
      BY <1>6 DEF Finish
    <3>6. /\ Stamped(proc'[p].graph) /\ Honest(proc'[p].graph)
          /\ proc'[p].graph.version = inputs.version /\ proc'[p].graph.digest = proc[p].digest
      BY <3>2, <3>3, <3>4
    <3>7. /\ proc[p].pc = "finish" /\ proc'[p].pc = "place"
          /\ proc'[p].digest = 0 /\ proc'[p].met = {}
          /\ Stamped(proc'[p].graph) /\ Honest(proc'[p].graph)
          /\ proc'[p].graph.version = inputs.version /\ proc'[p].graph.digest = proc[p].digest
      BY <3>4, <3>5, <3>6
    <3>8. /\ UNCHANGED <<inputs, file, accessVars, backoff, refreshing, lockVars>> /\ CountsOn
          /\ known' \in Known /\ UpTo(known')
          /\ Alone(p) /\ SameRole(p) /\ SameLearnt(p) /\ SameView(p)
      <4> HIDE DEF Alone, SameRole, SameLearnt, SameView
      <4> QED BY <1>3, <2>1, <3>4, <3>5 DEF UpTo
    <3> HIDE DEF Alone, SameRole, SameLearnt, SameView
    <3> QED BY <3>7, <3>8 DEF Builds
  <2>5. CASE g = Partial /\ (count'.failures > 0 \/ proc[p].digest = 0 \/ proc[p].met = {})
    <3>1. /\ Alone(p) /\ proc'[p].pc = "place" /\ proc'[p].digest = 0 /\ proc'[p].met = {}
          /\ proc'[p].graph = g /\ SameRole(p) /\ SameLearnt(p) /\ SameView(p)
      BY <1>2, <2>2, <2>5, FinishedStep DEF Inv
    <3> QED BY <1>3, <1>6, <2>1, <2>5, <3>1 DEF Finish, Builds
  <2> QED BY <2>3, <2>4, <2>5
<1> QED BY <1>4, <1>5, <1>6

LEMMA BuildsDated ==
  ASSUME Inv, NEW p \in Procs, Builds(p)
  PROVE  Dated'
<1>1. Honest(file.api) /\ Honest(file.cli) /\ file' = file /\ inputs' = inputs
  BY DEF Inv, Dated, Builds
<1>2. ASSUME NEW q \in Procs
      PROVE  /\ Honest(proc'[q].graph) /\ proc'[q].digest <= inputs.digest
             /\ proc'[q].met \subseteq proc'[q].digest .. inputs.digest
             /\ ~At(q, "finish")' => proc'[q].met = {}
  <2>1. /\ Honest(proc[q].graph) /\ proc[q].digest <= inputs.digest
        /\ proc[q].met \subseteq proc[q].digest .. inputs.digest
        /\ ~At(q, "finish") => proc[q].met = {}
        /\ inputs.digest \in Nat /\ proc[q].digest \in Nat
    BY OfProc DEF Inv, Dated, Types, Known, ProcState
  <2>2. CASE q # p
    BY <2>1, <2>2 DEF Builds
  <2>3. CASE q = p
    BY <2>1, <2>3, Plain DEF Builds
  <2> QED BY <2>2, <2>3
<1> QED BY <1>1, <1>2 DEF Dated, Honest, Stamped

LEMMA ThreadBuildsInv ==
  ASSUME Inv, NEW t \in Threads, Builds(t)
  PROVE  Inv' /\ Held
<1>1. /\ Builds(t) /\ proc[t].pc \in {"build", "gather", "finish"}
      /\ proc'[t].pc \in {"gather", "finish", "place"} /\ proc[t].graph = Absent /\ owner[Job] = t
      /\ t \in Procs
  BY DEF Builds, Inv, Whole, Carries, Exclusion, Own, Procs
<1>2. Held
  <2>1. Holds = (IF file.api = Torn THEN Absent ELSE file.api) /\ (file.api # Torn => Holds' = file.api)
    BY <1>1 DEF Holds, Inv, Types, Builds
  <2> QED BY <1>1, <2>1 DEF Held, Readable, Stamped, AtLeast
<1>3. CopyLock' /\ CopyServes'
  BY <1>1, ThreadStep DEF Inv, Types, Procs, CountsOn, Builds
<1>4. Types'
  BY <1>1 DEF Inv, Types, Known, CountsOn, Builds
<1>5. Places'
  BY <1>1 DEF Inv, Types, Places, ThreadPcs, CliPcs, Own, Asking, Building, Procs, Builds
<1>6. Exclusion'
  BY <1>1 DEF Inv, Types, Places, Exclusion, Own, Asking, Procs, Builds
<1>7. RefreshLock'
  BY <1>1 DEF Inv, Types, Places, Exclusion, RefreshLock, Own, Asking, Procs, Builds
<1>8. Whole'
  BY <1>1, <1>2, OwnerStep DEF Inv, Types, Whole, Own, Carries, Readable, Procs, Builds
<1>9. Learnt'
  BY <1>1 DEF Inv, Types, Learnt, UpTo, Known, Unknown, Procs, Builds
<1>10. StampsAll'
  BY <1>1 DEF Inv, Types, StampsAll, NoFailure, Procs, CountsOn, Stamped, Builds
<1>11. NoCopy'
  BY <1>1 DEF Inv, Types, NoCopy, Procs, CountsOn, Builds
<1>12. Dated'
  BY <1>1, BuildsDated
<1>13. ApiServes'
  <2> SUFFICES ASSUME NoFailure', count'.cliRuns = 0 PROVE ApiServes'
    BY DEF ApiServes
  <2>1. /\ count.failures = 0 /\ count.cliRuns = 0 /\ count'.failures = 0
        /\ file' = file /\ inputs' = inputs /\ Alone(t) /\ SameRole(t) /\ SameLearnt(t)
    BY <1>1 DEF NoFailure, Inv, Types, CountsOn, Builds
  <2>2. \A k \in Known : AtLeast(Holds, k) => AtLeast(Holds', k)
    BY <1>2, <2>1 DEF Held, NoFailure
  <2>3. ASSUME NEW u \in Threads PROVE proc'[u].want = "read" =>
                                          proc'[u].seen = Unknown \/ AtLeast(Holds', proc'[u].seen)
    BY <2>1, <2>2, <2>3, ProcSeen DEF Inv, ApiServes, NoFailure, Procs
  <2>4. /\ Stamped(file.api) => /\ file.api.version \in Nat /\ file.api.digest \in Nat
                                /\ file.api.version <= inputs.version
                                /\ file.api.digest <= inputs.digest
        /\ inputs.version \in Nat /\ inputs.digest \in Nat
        /\ proc[t].seen.version <= inputs.version /\ proc[t].seen.digest <= inputs.digest
        /\ proc[t].seen.version \in Nat /\ proc[t].seen.digest \in Nat
    BY <1>1, ProcSeen DEF Inv, Types, Known, Dated, Honest, Stamped, Graph, Learnt, UpTo
  <2> DEFINE Good(u) ==
         /\ proc'[u].pc \in {"gather", "finish"} =>
               /\ proc'[u].seen.digest <= proc'[u].digest
               /\ Stamped(file.api) => file.api.digest <= proc'[u].digest
         /\ proc'[u].pc \in {"place", "upload", "uploaded"} => AtLeast(proc'[u].graph, proc'[u].seen)
         /\ At(u, "place")' /\ Stamped(file.api) => AtLeast(proc'[u].graph, file.api)
         /\ At(u, "upload")' => proc'[u].graph = file.api
         /\ At(u, "done")' /\ proc'[u].mode = "refresh" => AtLeast(file.api, proc'[u].seen)
  <2>5. ASSUME NEW u \in Threads, u # t PROVE Good(u)
    <3>1. proc'[u] = proc[u]
      BY <2>1, <2>5 DEF Procs
    <3> QED BY <2>1, <3>1 DEF Inv, ApiServes, NoFailure
  <2>6. ASSUME proc'[t].pc = "gather" PROVE Good(t)
    <3>1. proc'[t].digest = inputs.digest
      BY <1>1, <2>1, <2>6 DEF Builds
    <3> QED BY <2>1, <2>4, <2>6, <3>1
  <2>7. ASSUME proc'[t].pc = "finish" PROVE Good(t)
    <3>1. proc'[t].digest = proc[t].digest /\ proc[t].pc = "gather"
      BY <1>1, <2>1, <2>7 DEF Builds
    <3> QED BY <2>1, <2>7, <3>1 DEF Inv, ApiServes, NoFailure
  <2>8. ASSUME proc'[t].pc = "place" PROVE Good(t)
    <3>1. /\ proc[t].pc = "finish" /\ Stamped(proc'[t].graph)
          /\ proc'[t].graph.version = inputs.version /\ proc'[t].graph.digest = proc[t].digest
      BY <1>1, <2>1, <2>8 DEF Builds, Inv, StampsAll, NoFailure
    <3>2. /\ proc[t].seen.digest <= proc[t].digest
          /\ Stamped(file.api) => file.api.digest <= proc[t].digest
      BY <2>1, <3>1 DEF Inv, ApiServes, NoFailure
    <3>3. AtLeast(proc'[t].graph, proc[t].seen) /\ (Stamped(file.api) => AtLeast(proc'[t].graph, file.api))
      BY <2>4, <3>1, <3>2 DEF AtLeast
    <3> QED BY <2>1, <2>8, <3>3
  <2>9. \A u \in Threads : Good(u)
    BY <1>1, <2>6, <2>7, <2>8, <2>5
  <2> QED BY <2>1, <2>3, <2>9 DEF ApiServes, AtLeast, Stamped
<1> QED BY <1>2, <1>3, <1>4, <1>5, <1>6, <1>7, <1>8, <1>9, <1>10, <1>11, <1>12, <1>13 DEF Inv

LEMMA CliBuildsInv ==
  ASSUME Inv, NEW p \in CliProcs, Builds(p), UNCHANGED known
  PROVE  Inv' /\ Held
<1>1. /\ Builds(p) /\ proc[p].pc \in {"build", "gather", "finish"}
      /\ proc'[p].pc \in {"gather", "finish", "place"} /\ count'.cliRuns # 0 /\ p \in Procs
      /\ At(p, "place")' => Readable(proc'[p].graph)
  BY DEF Builds, Inv, Types, CountsOn, NoCopy, Procs, Readable
<1>2. Places' /\ Exclusion' /\ RefreshLock' /\ Whole' /\ Held /\ NoCopy' /\ ApiServes'
  BY <1>1, CliStep DEF Inv, Types, Builds, CliPcs, Building
<1>3. Types'
  BY <1>1 DEF Inv, Types, Known, CountsOn, Builds
<1>4. CopyLock'
  BY <1>1 DEF Inv, Types, Places, CopyLock, Building, CliPcs, Procs, Builds
<1>5. Learnt'
  BY <1>1 DEF Inv, Types, Learnt, UpTo, Known, Unknown, Procs, Builds
<1>6. StampsAll'
  BY <1>1 DEF Inv, Types, StampsAll, NoFailure, Procs, CountsOn, Stamped, Builds
<1>7. Dated'
  BY <1>1, BuildsDated
<1>8. CopyServes'
  <2> SUFFICES ASSUME NoFailure' PROVE CopyServes'
    BY DEF CopyServes
  <2>1. /\ count.failures = 0 /\ count'.failures = 0
        /\ file' = file /\ inputs' = inputs /\ Alone(p) /\ SameRole(p) /\ SameLearnt(p) /\ SameView(p)
    BY <1>1 DEF NoFailure, Inv, Types, CountsOn, Builds
  <2>2. \A q \in CliProcs : /\ q \in Procs
                            /\ q # p => proc'[q] = proc[q]
                            /\ proc'[q].seen = proc[q].seen /\ proc'[q].view = proc[q].view
    BY <2>1 DEF Procs
  <2>3. \A q \in CliProcs :
           /\ At(q, "reshare")' => file'.cli = Absent \/ AtLeast(file'.cli, proc'[q].seen)
           /\ At(q, "readCopy")' => AtLeast(proc'[q].view, proc'[q].seen)
    BY <1>1, <2>1, <2>2 DEF Inv, CopyServes, NoFailure
  <2>4. ASSUME NEW r \in CliProcs, NEW q \in CliProcs, At(r, "reshare")' \/ r = q
        PROVE  /\ proc'[q].pc \in {"gather", "finish"} => proc'[r].seen.digest <= proc'[q].digest
               /\ At(q, "place")' => AtLeast(proc'[q].graph, proc'[r].seen)
    <3>1. At(r, "reshare") \/ r = q
      BY <1>1, <2>2, <2>4
    <3>2. CASE q # p
      BY <2>1, <2>2, <3>1, <3>2 DEF Inv, CopyServes, NoFailure
    <3>3. CASE q = p
      <4>1. /\ inputs.version \in Nat /\ inputs.digest \in Nat
            /\ proc[r].seen.version <= inputs.version /\ proc[r].seen.digest <= inputs.digest
        BY <2>2, ProcSeen DEF Inv, Types, Known, Learnt, UpTo
      <4>2. CASE proc'[p].pc = "gather"
        <5>1. proc'[p].digest = inputs.digest
          BY <1>1, <2>1, <4>2 DEF Builds
        <5> QED BY <2>2, <3>3, <4>1, <4>2, <5>1
      <4>3. CASE proc'[p].pc = "finish"
        <5>1. proc'[p].digest = proc[p].digest /\ proc[p].pc = "gather"
          BY <1>1, <2>1, <4>3 DEF Builds
        <5>2. proc[r].seen.digest <= proc[p].digest
          BY <2>1, <3>1, <3>3, <5>1 DEF Inv, CopyServes, NoFailure
        <5> QED BY <2>2, <3>3, <4>3, <5>1, <5>2
      <4>4. CASE proc'[p].pc = "place"
        <5>1. /\ proc[p].pc = "finish" /\ Stamped(proc'[p].graph)
              /\ proc'[p].graph.version = inputs.version /\ proc'[p].graph.digest = proc[p].digest
          BY <1>1, <2>1, <4>4 DEF Builds, Inv, StampsAll, NoFailure
        <5>2. proc[r].seen.digest <= proc[p].digest
          BY <2>1, <3>1, <3>3, <5>1 DEF Inv, CopyServes, NoFailure
        <5> QED BY <2>2, <3>3, <4>1, <4>4, <5>1, <5>2 DEF AtLeast
      <4> QED BY <1>1, <4>2, <4>3, <4>4
    <3> QED BY <3>2, <3>3
  <2>5. \A g, k : AtLeast(g, k)' <=> AtLeast(g, k)
    BY DEF AtLeast, Stamped
  <2> QED BY <2>3, <2>4, <2>5 DEF CopyServes, AtLeast, Stamped
<1> QED BY <1>2, <1>3, <1>4, <1>5, <1>6, <1>7, <1>8 DEF Inv

-----------------------------------------------------------------------------
(* Runs of the command line.                                               *)

LEMMA RunCliInv ==
  ASSUME Inv, NEW p \in CliProcs, RunCli(p)
  PROVE  Inv' /\ Held
<1>1. /\ UNCHANGED <<inputs, file, apiVars, lockVars>> /\ CountsOn /\ count'.cliRuns # 0
      /\ p \in Procs /\ proc[p].pc = "idle" /\ Alone(p) /\ proc'[p].pc = "version"
      /\ SameRole(p) /\ SameLearnt(p) /\ SameBuild(p) /\ SameGraph(p) /\ SameView(p)
  <2>1. p \in Procs /\ "version" \in Pcs
    BY DEF Pcs, Procs
  <2>2. CountsOn /\ count'.cliRuns # 0
    BY CountsStep DEF RunCli, Inv, Types
  <2> QED BY <2>1, <2>2, GotoStep DEF RunCli, Inv
<1>2. Places' /\ Exclusion' /\ RefreshLock' /\ Whole' /\ Held /\ NoCopy' /\ ApiServes' /\ Dated' /\ StampsAll'
  BY <1>1, QuietCliStep DEF Inv, CliPcs, Building
<1>3. Types'
  BY <1>1 DEF Inv, Types, Known, CountsOn
<1>4. CopyLock'
  BY <1>1 DEF Inv, Types, Places, CopyLock, Building, CliPcs, Procs
<1>5. Learnt'
  BY <1>1 DEF Inv, Types, Learnt, UpTo, Known, Unknown, Procs
<1>6. CopyServes'
  BY <1>1 DEF Inv, Types, CountsOn, Places, CopyServes, NoFailure, CopyLock, AtLeast, Procs
<1> QED BY <1>2, <1>3, <1>4, <1>5, <1>6 DEF Inv

LEMMA FreshnessInv ==
  ASSUME Inv, NEW p \in CliProcs, Freshness(p)
  PROVE  Inv' /\ Held
<1>1. /\ UNCHANGED <<inputs, file, apiVars, lockVars>> /\ CountsOn /\ count'.cliRuns # 0
      /\ p \in Procs /\ proc[p].pc \in {"version", "digest"} /\ Alone(p)
      /\ proc'[p].pc \in {"digest", "api"}
      /\ SameRole(p) /\ UpTo(proc'[p].seen) /\ proc'[p].goal = proc[p].goal
      /\ SameBuild(p) /\ SameGraph(p) /\ SameView(p)
  <2>1. p \in Procs /\ {"digest", "api"} \subseteq Pcs
    BY DEF Pcs, Procs
  <2>2. CountsOn
    BY FailsStep, WorksStep DEF Freshness, Inv
  <2>3. count'.cliRuns # 0 /\ proc[p].pc \in {"version", "digest"}
    BY <2>1, <2>2 DEF Freshness, Inv, NoCopy, CountsOn, Types
  <2>4. UNCHANGED <<inputs, file, apiVars, lockVars>>
    BY DEF Freshness
  <2>5. proc[p].seen \in Known /\ UpTo(proc[p].seen)
    BY <2>1, ProcSeen DEF Inv, Learnt
  <2>6. CASE Goto(p, "api")
    BY <2>1, <2>2, <2>3, <2>4, <2>5, <2>6, GotoStep DEF Inv
  <2>7. ASSUME NEW what \in {"version", "digest"}, NEW pc \in {"digest", "api"}, Sees(p, what, inputs[what], pc)
        PROVE  /\ Alone(p) /\ proc'[p].pc = pc /\ SameRole(p) /\ SameBuild(p) /\ SameGraph(p) /\ SameView(p)
               /\ proc'[p].goal = proc[p].goal /\ UpTo(proc'[p].seen)
    <3>1. inputs[what] \in 0 .. MaxInputs /\ pc \in Pcs
      BY <2>1, <2>7 DEF Inv, Types, Known
    <3>2. /\ Alone(p) /\ proc'[p].pc = pc /\ SameRole(p) /\ SameBuild(p) /\ SameGraph(p) /\ SameView(p)
          /\ proc'[p].goal = proc[p].goal
          /\ proc'[p].seen = [proc[p].seen EXCEPT ![what] = inputs[what]]
      BY <2>1, <2>7, <3>1, SeesStep DEF Inv
    <3>3. UpTo([proc[p].seen EXCEPT ![what] = inputs[what]])
      BY <2>5, <2>7 DEF UpTo, Known, Inv, Types
    <3> QED BY <3>2, <3>3
  <2>8. CASE ~Goto(p, "api")
    BY <2>1, <2>2, <2>3, <2>4, <2>7, <2>8 DEF Freshness
  <2> QED BY <2>6, <2>8
<1>2. Places' /\ Exclusion' /\ RefreshLock' /\ Whole' /\ Held /\ NoCopy' /\ ApiServes' /\ Dated' /\ StampsAll'
  BY <1>1, QuietCliStep DEF Inv, CliPcs, Building
<1>3. Types'
  BY <1>1 DEF Inv, Types, Known, CountsOn
<1>4. CopyLock'
  BY <1>1 DEF Inv, Types, Places, CopyLock, Building, CliPcs, Procs
<1>5. Learnt'
  BY <1>1 DEF Inv, Types, Learnt, UpTo, Known, Unknown, Procs
<1>6. CopyServes'
  BY <1>1 DEF Inv, Types, CountsOn, Places, CopyServes, NoFailure, CopyLock, AtLeast, Procs
<1> QED BY <1>2, <1>3, <1>4, <1>5, <1>6 DEF Inv

LEMMA CheckApiInv ==
  ASSUME Inv, NEW p \in CliProcs, CheckApi(p)
  PROVE  Inv' /\ Held
<1>1. /\ UNCHANGED <<inputs, file, apiVars, lockVars>> /\ CountsOn /\ count'.cliRuns # 0
      /\ p \in Procs /\ proc[p].pc = "api" /\ Alone(p) /\ proc'[p].pc \in {"openApi", "share"}
      /\ SameRole(p) /\ SameLearnt(p) /\ SameBuild(p) /\ SameGraph(p) /\ SameView(p)
  <2>1. p \in Procs /\ {"openApi", "share"} \subseteq Pcs
    BY DEF Pcs, Procs
  <2>2. CountsOn /\ count'.cliRuns # 0
    BY <2>1, WorksStep DEF CheckApi, Inv, NoCopy, CountsOn, Types
  <2> QED BY <2>1, <2>2, GotoStep DEF CheckApi, Inv
<1>2. Places' /\ Exclusion' /\ RefreshLock' /\ Whole' /\ Held /\ NoCopy' /\ ApiServes' /\ Dated' /\ StampsAll'
  BY <1>1, QuietCliStep DEF Inv, CliPcs, Building
<1>3. Types'
  BY <1>1 DEF Inv, Types, Known, CountsOn
<1>4. CopyLock'
  BY <1>1 DEF Inv, Types, Places, CopyLock, Building, CliPcs, Procs
<1>5. Learnt'
  BY <1>1 DEF Inv, Types, Learnt, UpTo, Known, Unknown, Procs
<1>6. CopyServes'
  BY <1>1 DEF Inv, Types, CountsOn, Places, CopyServes, NoFailure, CopyLock, AtLeast, Procs
<1> QED BY <1>2, <1>3, <1>4, <1>5, <1>6 DEF Inv

LEMMA OpenApiInv ==
  ASSUME Inv, NEW p \in CliProcs, OpenApi(p)
  PROVE  Inv' /\ Held
<1>1. /\ UNCHANGED <<inputs, file, apiVars, lockVars>> /\ CountsOn /\ count'.cliRuns # 0
      /\ p \in Procs /\ proc[p].pc = "openApi" /\ Alone(p) /\ proc'[p].pc \in {"readApi", "share"}
      /\ SameRole(p) /\ SameLearnt(p) /\ SameBuild(p) /\ SameGraph(p)
  <2>1. p \in Procs /\ {"readApi", "share"} \subseteq Pcs /\ Theirs \in Content \cup {Theirs}
    BY DEF Pcs, Procs
  <2>2. CountsOn /\ count'.cliRuns # 0
    BY <2>1, WorksStep DEF OpenApi, Inv, NoCopy, CountsOn, Types
  <2>3. CASE Opens(p, "readApi", Theirs)
    BY <2>1, <2>2, <2>3, OpensStep DEF OpenApi, Inv
  <2>4. CASE Goto(p, "share")
    BY <2>1, <2>2, <2>4, GotoStep DEF OpenApi, Inv
  <2> QED BY <2>3, <2>4 DEF OpenApi
<1>2. Places' /\ Exclusion' /\ RefreshLock' /\ Whole' /\ Held /\ NoCopy' /\ ApiServes' /\ Dated' /\ StampsAll'
  BY <1>1, QuietCliStep DEF Inv, CliPcs, Building
<1>3. Types'
  BY <1>1 DEF Inv, Types, Known, CountsOn
<1>4. CopyLock'
  BY <1>1 DEF Inv, Types, Places, CopyLock, Building, CliPcs, Procs
<1>5. Learnt'
  BY <1>1 DEF Inv, Types, Learnt, UpTo, Known, Unknown, Procs
<1>6. CopyServes'
  BY <1>1 DEF Inv, Types, CountsOn, Places, CopyServes, NoFailure, CopyLock, AtLeast, Procs
<1> QED BY <1>2, <1>3, <1>4, <1>5, <1>6 DEF Inv

LEMMA ReadApiInv ==
  ASSUME Inv, NEW p \in CliProcs, ReadApi(p)
  PROVE  Inv' /\ Held
<1>1. /\ UNCHANGED <<inputs, apiVars, lockVars>> /\ CountsOn /\ count'.cliRuns # 0
      /\ file' \in [api : Content, cli : Content] /\ file'.cli \in {file.cli, Absent}
      /\ file'.api = file.api
      /\ p \in Procs /\ proc[p].pc = "readApi" /\ Alone(p) /\ proc'[p] = Idle
  <2>1. p \in Procs /\ Absent \in Content
    BY Contents DEF Procs
  <2>2. CountsOn /\ count'.cliRuns # 0
    BY <2>1, WorksStep DEF ReadApi, Inv, NoCopy, CountsOn, Types
  <2>3. file' \in [api : Content, cli : Content] /\ file'.cli \in {file.cli, Absent} /\ file'.api = file.api
    BY <2>1 DEF Inv, Types, CopyRemoved, ReadApi
  <2> QED BY <2>1, <2>2, <2>3, EndsStep DEF ReadApi, Inv
<1>2. Places' /\ Exclusion' /\ RefreshLock' /\ Whole' /\ Held /\ NoCopy' /\ ApiServes'
  BY <1>1, IdleFields, CliStep DEF Inv, CliPcs
<1>3. Types'
  BY <1>1, IdleFields DEF Inv, Types, Known, CountsOn, CountsOn
<1>4. CopyLock'
  BY <1>1, IdleFields DEF Inv, Types, Places, CopyLock, Building, CliPcs, Procs, CountsOn
<1>5. Dated'
  BY <1>1, DatedStep, Plain, IdleFields DEF Inv, Types, Dated, Honest, Known, Procs, CountsOn
<1>6. Learnt'
  BY <1>1, IdleFields DEF Inv, Types, Learnt, UpTo, Known, Unknown, Procs, CountsOn
<1>7. StampsAll'
  BY <1>1, IdleFields DEF Inv, Types, StampsAll, NoFailure, Procs, CountsOn
<1>8. CopyServes'
  BY <1>1, IdleFields DEF Inv, Types, CountsOn, Places, CopyServes, NoFailure, CopyLock, AtLeast,
      Procs, CountsOn
<1> QED BY <1>2, <1>3, <1>4, <1>5, <1>6, <1>7, <1>8 DEF Inv

LEMMA ReadsCopyInv ==
  ASSUME Inv, NEW p \in CliProcs, At(p, "share") \/ At(p, "reshare"), ReadsCopy(p),
         exclusive = Nobody, 
         At(p, "share") => Current(file.cli, proc[p].seen), At(p, "reshare") => file.cli # Absent,
         UNCHANGED <<inputs, file, apiVars, exclusive, count>>
  PROVE  Inv' /\ Held
<1>1. /\ UNCHANGED <<inputs, file, apiVars, exclusive, count>> /\ CountsOn /\ count'.cliRuns # 0
      /\ p \in Procs /\ proc[p].pc \in {"share", "reshare"} /\ Alone(p) /\ proc'[p].pc = "readCopy"
      /\ SameRole(p) /\ SameLearnt(p) /\ SameBuild(p) /\ SameGraph(p)
      /\ proc'[p].view = file.cli /\ shared' = shared \cup {p}
  <2>1. p \in Procs /\ "readCopy" \in Pcs /\ file.cli \in Content \cup {Theirs}
    BY DEF Pcs, Procs, Inv, Types
  <2>2. CountsOn /\ count'.cliRuns # 0
    BY <2>1, WorksStep DEF Inv, NoCopy, CountsOn, Types
  <2> QED BY <2>1, <2>2, OpensStep DEF ReadsCopy, Inv
<1>2. Places' /\ Exclusion' /\ RefreshLock' /\ Whole' /\ Held /\ NoCopy' /\ ApiServes' /\ Dated' /\ StampsAll'
  BY <1>1, QuietCliStep DEF Inv, CliPcs, Building
<1>3. Types'
  BY <1>1 DEF Inv, Types, Known, CountsOn
<1>4. CopyLock'
  BY <1>1 DEF Inv, Types, Places, CopyLock, Building, CliPcs, Procs
<1>5. Learnt'
  BY <1>1 DEF Inv, Types, Learnt, UpTo, Known, Unknown, Procs
<1>6. CopyServes'
  BY <1>1 DEF Inv, Types, CountsOn, Places, CopyServes, NoFailure, CopyLock, AtLeast, Procs,
      Current, Stamped, Graph, Known, ProcState, Content, StampsAll
<1> QED BY <1>2, <1>3, <1>4, <1>5, <1>6 DEF Inv

LEMMA ShareExcludesInv ==
  ASSUME Inv, NEW p \in CliProcs, At(p, "share"), Goto(p, "exclude"),
         UNCHANGED <<inputs, file, apiVars, lockVars, count>>
  PROVE  Inv' /\ Held
<1>1. /\ UNCHANGED <<inputs, file, apiVars, lockVars, count>> /\ CountsOn /\ count'.cliRuns # 0
      /\ p \in Procs /\ proc[p].pc = "share" /\ Alone(p) /\ proc'[p].pc = "exclude"
      /\ SameRole(p) /\ SameLearnt(p) /\ SameBuild(p) /\ SameGraph(p) /\ SameView(p)
  <2>1. p \in Procs /\ "exclude" \in Pcs
    BY DEF Pcs, Procs
  <2>2. CountsOn /\ count'.cliRuns # 0
    BY <2>1, WorksStep DEF Inv, NoCopy, CountsOn, Types
  <2> QED BY <2>1, <2>2, GotoStep DEF Inv
<1>2. Places' /\ Exclusion' /\ RefreshLock' /\ Whole' /\ Held /\ NoCopy' /\ ApiServes' /\ Dated' /\ StampsAll'
  BY <1>1, QuietCliStep DEF Inv, CliPcs, Building
<1>3. Types'
  BY <1>1 DEF Inv, Types, Known, CountsOn
<1>4. CopyLock'
  BY <1>1 DEF Inv, Types, Places, CopyLock, Building, CliPcs, Procs
<1>5. Learnt'
  BY <1>1 DEF Inv, Types, Learnt, UpTo, Known, Unknown, Procs
<1>6. CopyServes'
  BY <1>1 DEF Inv, Types, CountsOn, Places, CopyServes, NoFailure, CopyLock, AtLeast, Procs
<1> QED BY <1>2, <1>3, <1>4, <1>5, <1>6 DEF Inv

LEMMA ExcludeInv ==
  ASSUME Inv, NEW p \in CliProcs, Exclude(p)
  PROVE  Inv' /\ Held
<1>1. /\ UNCHANGED <<inputs, file, apiVars, shared, count>> /\ CountsOn /\ count'.cliRuns # 0
      /\ p \in Procs /\ proc[p].pc = "exclude" /\ exclusive = Nobody /\ shared = {} /\ Alone(p)
      /\ SameRole(p) /\ SameLearnt(p) /\ SameBuild(p) /\ SameGraph(p) /\ SameView(p)
      /\ \/ proc'[p].pc = "reshare" /\ exclusive' = exclusive /\ Current(file.cli, proc[p].seen)
         \/ proc'[p].pc = "build" /\ exclusive' = p
  <2>1. p \in Procs /\ {"reshare", "build"} \subseteq Pcs
    BY DEF Pcs, Procs
  <2>2. CountsOn /\ count'.cliRuns # 0
    BY <2>1, WorksStep DEF Exclude, Inv, NoCopy, CountsOn, Types
  <2>3. CASE Goto(p, "reshare") /\ exclusive' = exclusive /\ Current(file.cli, proc[p].seen)
    BY <2>1, <2>2, <2>3, GotoStep DEF Exclude, Inv
  <2>4. CASE Goto(p, "build") /\ exclusive' = p
    BY <2>1, <2>2, <2>4, GotoStep DEF Exclude, Inv
  <2> QED BY <2>3, <2>4 DEF Exclude
<1>2. Places' /\ Exclusion' /\ RefreshLock' /\ Whole' /\ Held /\ NoCopy' /\ ApiServes' /\ Dated' /\ StampsAll'
  BY <1>1, QuietCliStep DEF Inv, CliPcs, Building
<1>3. Types'
  BY <1>1 DEF Inv, Types, Known, CountsOn
<1>4. CopyLock'
  BY <1>1 DEF Inv, Types, Places, CopyLock, Building, CliPcs, Procs
<1>5. Learnt'
  BY <1>1 DEF Inv, Types, Learnt, UpTo, Known, Unknown, Procs
<1>6. CopyServes'
  BY <1>1 DEF Inv, Types, CountsOn, Places, CopyServes, NoFailure, CopyLock, AtLeast, Procs,
      Current, Stamped, Graph, Known, ProcState, Building
<1> QED BY <1>2, <1>3, <1>4, <1>5, <1>6 DEF Inv

LEMMA PlaceCopyInv ==
  ASSUME Inv, NEW p \in CliProcs, PlaceCopy(p)
  PROVE  Inv' /\ Held
<1>1. /\ UNCHANGED <<inputs, apiVars, shared, count>> /\ CountsOn /\ count'.cliRuns # 0
      /\ file' \in [api : Content, cli : Content] /\ file'.api = file.api
      /\ file'.cli = IF Replaces(proc[p].graph, file.cli) THEN proc[p].graph ELSE file.cli
      /\ p \in Procs /\ proc[p].pc = "place" /\ Alone(p) /\ SameRole(p) /\ SameLearnt(p)
      /\ SameBuild(p) /\ SameView(p)
      /\ proc'[p].pc = "reshare" /\ proc'[p].graph = Absent /\ exclusive = p /\ exclusive' = Nobody
  <2>1. p \in Procs /\ "reshare" \in Pcs /\ Absent \in Content /\ proc[p].graph \in Content
    BY Contents, ProcSeen DEF Procs, Pcs, Inv
  <2>2. CountsOn /\ count'.cliRuns # 0
    BY <2>1, WorksStep DEF PlaceCopy, Inv, NoCopy, CountsOn, Types
  <2>3. /\ file' \in [api : Content, cli : Content] /\ file'.api = file.api
        /\ file'.cli = IF Replaces(proc[p].graph, file.cli) THEN proc[p].graph ELSE file.cli
    BY <2>1 DEF Inv, Types, PlaceCopy
  <2>4. exclusive = p /\ proc[p].pc = "place"
    BY DEF PlaceCopy, Inv, CopyLock, Building
  <2> QED BY <2>1, <2>2, <2>3, <2>4, KeepsStep DEF PlaceCopy, Inv
<1>2. Places' /\ Exclusion' /\ RefreshLock' /\ Whole' /\ Held /\ NoCopy' /\ ApiServes'
  BY <1>1, CliStep DEF Inv, CliPcs
<1>3. Types'
  BY <1>1 DEF Inv, Types, Known, CountsOn
<1>4. CopyLock'
  BY <1>1 DEF Inv, Types, Places, CopyLock, Building, CliPcs, Procs
<1>5. Dated'
  BY <1>1, DatedStep, Plain DEF Inv, Types, Dated, Honest, Known, Procs
<1>6. Learnt'
  BY <1>1 DEF Inv, Types, Learnt, UpTo, Known, Unknown, Procs
<1>7. StampsAll'
  BY <1>1 DEF Inv, Types, StampsAll, NoFailure, Procs, Replaces, Whole, Readable, Stamped
<1>8. CopyServes'
  BY <1>1 DEF Inv, Types, CountsOn, Places, CopyServes, NoFailure, CopyLock, AtLeast, Procs,
      Replaces, Building
<1> QED BY <1>2, <1>3, <1>4, <1>5, <1>6, <1>7, <1>8 DEF Inv

LEMMA ReshareEndsInv ==
  ASSUME Inv, NEW p \in CliProcs, At(p, "reshare"), Ends(p),
         UNCHANGED <<inputs, file, apiVars, lockVars, count>>
  PROVE  Inv' /\ Held
<1>1. /\ UNCHANGED <<inputs, file, apiVars, lockVars, count>> /\ CountsOn /\ count'.cliRuns # 0
      /\ p \in Procs /\ proc[p].pc = "reshare" /\ Alone(p) /\ proc'[p] = Idle
  <2>1. p \in Procs
    BY DEF Procs
  <2>2. CountsOn /\ count'.cliRuns # 0
    BY <2>1, WorksStep DEF Inv, NoCopy, CountsOn, Types
  <2> QED BY <2>1, <2>2, EndsStep DEF Inv
<1>2. Places' /\ Exclusion' /\ RefreshLock' /\ Whole' /\ Held /\ NoCopy' /\ ApiServes' /\ Dated' /\ StampsAll'
  BY <1>1, IdleFields, QuietCliStep DEF Inv, CliPcs, Building
<1>3. Types'
  BY <1>1, IdleFields DEF Inv, Types, Known, CountsOn, Building
<1>4. CopyLock'
  BY <1>1, IdleFields DEF Inv, Types, Places, CopyLock, Building, CliPcs, Procs, Building
<1>5. Learnt'
  BY <1>1, IdleFields DEF Inv, Types, Learnt, UpTo, Known, Unknown, Procs, Building
<1>6. CopyServes'
  BY <1>1, IdleFields DEF Inv, Types, CountsOn, Places, CopyServes, NoFailure, CopyLock, AtLeast,
      Procs, Building
<1> QED BY <1>2, <1>3, <1>4, <1>5, <1>6 DEF Inv

LEMMA ReadCopyInv ==
  ASSUME Inv, NEW p \in CliProcs, ReadCopy(p)
  PROVE  Inv' /\ Held
<1>1. /\ UNCHANGED <<inputs, file, apiVars, exclusive, count>> /\ CountsOn /\ count'.cliRuns # 0
      /\ p \in Procs /\ proc[p].pc = "readCopy" /\ Alone(p) /\ proc'[p] = Idle /\ shared' = shared \ {p}
  <2>1. p \in Procs
    BY DEF Procs
  <2>2. CountsOn /\ count'.cliRuns # 0
    BY <2>1, WorksStep DEF ReadCopy, Inv, NoCopy, CountsOn, Types
  <2> QED BY <2>1, <2>2, EndsStep DEF ReadCopy, Inv
<1>2. Places' /\ Exclusion' /\ RefreshLock' /\ Whole' /\ Held /\ NoCopy' /\ ApiServes' /\ Dated' /\ StampsAll'
  BY <1>1, IdleFields, QuietCliStep DEF Inv, CliPcs, Building
<1>3. Types'
  BY <1>1, IdleFields DEF Inv, Types, Known, CountsOn, Building
<1>4. CopyLock'
  BY <1>1, IdleFields DEF Inv, Types, Places, CopyLock, Building, CliPcs, Procs, Building
<1>5. Learnt'
  BY <1>1, IdleFields DEF Inv, Types, Learnt, UpTo, Known, Unknown, Procs, Building
<1>6. CopyServes'
  BY <1>1, IdleFields DEF Inv, Types, CountsOn, Places, CopyServes, NoFailure, CopyLock, AtLeast,
      Procs, Building
<1> QED BY <1>2, <1>3, <1>4, <1>5, <1>6 DEF Inv

LEMMA CliRaisesInv ==
  ASSUME Inv, NEW p \in CliProcs, BuildRaises(p)
  PROVE  Inv' /\ Held
<1>1. /\ UNCHANGED <<inputs, file, apiVars, shared>> /\ CountsOn /\ count'.cliRuns # 0 /\ count'.failures > 0
      /\ p \in Procs /\ proc[p].pc = "finish" /\ Alone(p) /\ proc'[p] = Idle
      /\ exclusive = p /\ exclusive' = Nobody
  <2>1. p \in Procs /\ p \notin Threads /\ refreshing # p
    BY DEF Procs, Inv, Types
  <2>2. CountsOn /\ count'.failures > 0
    BY FailsStep DEF BuildRaises, Inv
  <2>3. count'.cliRuns # 0 /\ exclusive = p
    BY <2>1, <2>2 DEF BuildRaises, Inv, NoCopy, CountsOn, Types, CopyLock, Building
  <2> QED BY <2>1, <2>2, <2>3, EndsStep DEF BuildRaises, Inv
<1>2. Places' /\ Exclusion' /\ RefreshLock' /\ Whole' /\ Held /\ NoCopy' /\ ApiServes' /\ Dated' /\ StampsAll'
  BY <1>1, IdleFields, QuietCliStep DEF Inv, CliPcs, Building
<1>3. Types'
  BY <1>1, IdleFields DEF Inv, Types, Known, CountsOn, Building, CountsOn
<1>4. CopyLock'
  BY <1>1, IdleFields DEF Inv, Types, Places, CopyLock, Building, CliPcs, Procs, Building, CountsOn
<1>5. Learnt'
  BY <1>1, IdleFields DEF Inv, Types, Learnt, UpTo, Known, Unknown, Procs, Building, CountsOn
<1>6. CopyServes'
  BY <1>1, IdleFields DEF Inv, Types, CountsOn, Places, CopyServes, NoFailure, CopyLock, AtLeast,
      Procs, Building, CountsOn
<1> QED BY <1>2, <1>3, <1>4, <1>5, <1>6 DEF Inv

-----------------------------------------------------------------------------
LEMMA WriteArtifactsInv == ASSUME Inv, WriteArtifacts PROVE Inv' /\ Held
<1>1. /\ UNCHANGED <<file, apiVars, lockVars, proc, count>>
      /\ inputs' \in Known /\ inputs'.digest > inputs.digest /\ inputs'.version >= inputs.version
      /\ inputs'.version <= inputs'.digest
  BY DEF Inv, Types, Known, WriteArtifacts
<1> USE DEF Inv
<1>2. Holds' = Holds
  BY <1>1 DEF Holds
<1>3. Types' /\ Places' /\ Exclusion' /\ CopyLock' /\ RefreshLock'
  BY <1>1 DEF Types, Known, Places, Exclusion, CopyLock, RefreshLock
<1>4. Whole' /\ Held
  BY <1>1, <1>2 DEF Whole, Held, Readable, Stamped, AtLeast
<1>5. Dated'
  <2>1. \A g : Honest(g) => Honest(g)'
    BY <1>1 DEF Honest, Stamped, Types, Known, Graph
  <2>2. \A p \in Procs : /\ proc[p].digest \in 0 .. MaxInputs
                         /\ proc[p].met \subseteq proc[p].digest .. inputs'.digest
                         /\ proc[p].digest <= inputs'.digest
    BY <1>1, OfProc DEF ProcState, Types, Known, Dated
  <2> QED BY <1>1, <2>1, <2>2 DEF Dated
<1>6. Learnt'
  <2>1. \A k \in Known : UpTo(k) => UpTo(k)'
    BY <1>1 DEF UpTo, Known, Types
  <2> QED BY <1>1, <2>1, ProcSeen DEF Learnt, Types
<1>7. StampsAll' /\ CopyServes' /\ NoCopy'
  BY <1>1 DEF StampsAll, CopyServes, NoCopy, NoFailure, AtLeast, Stamped
<1>8. ApiServes'
  BY <1>1, <1>2 DEF ApiServes, NoFailure, AtLeast, Stamped
<1> QED BY <1>3, <1>4, <1>5, <1>6, <1>7, <1>8

LEMMA ExpireInv == ASSUME Inv, Expire PROVE Inv' /\ Held
<1>1. /\ UNCHANGED <<inputs, file, accessVars, refreshing, lockVars, proc, count>>
      /\ known' \in Known /\ UpTo(known') /\ (backoff' => backoff) /\ backoff' \in BOOLEAN
  <2>1. known \in Known /\ UpTo(known) /\ backoff \in BOOLEAN
    BY DEF Inv, Types, Learnt
  <2>2. \A what \in {"version", "digest"} :
           [known EXCEPT ![what] = 0] \in Known /\ UpTo([known EXCEPT ![what] = 0])
    BY <2>1 DEF Known, UpTo, Inv, Types
  <2>3. \/ known' = known /\ backoff' = FALSE
        \/ backoff' = backoff /\ \E what \in {"version", "digest"} : known' = [known EXCEPT ![what] = 0]
    BY DEF Expire
  <2>4. known' \in Known /\ UpTo(known')
    BY <2>1, <2>2, <2>3
  <2>5. backoff' = FALSE \/ backoff' = backoff
    BY <2>3
  <2>6. UNCHANGED <<inputs, file, accessVars, refreshing, lockVars, proc, count>>
    BY DEF Expire
  <2>7. backoff' \in BOOLEAN
    BY <2>1, <2>5
  <2>8. ASSUME backoff' PROVE backoff
    BY <2>5, <2>8, Zenon
  <2> QED BY <2>4, <2>6, <2>7, <2>8
<1> USE DEF Inv
<1>2. Holds' = Holds
  BY <1>1 DEF Holds
<1>3. Types' /\ Places' /\ Exclusion' /\ CopyLock' /\ RefreshLock'
  BY <1>1 DEF Types, Places, Exclusion, CopyLock, RefreshLock
<1>4. Whole' /\ Held
  BY <1>1, <1>2 DEF Whole, Held, Readable, Stamped, AtLeast
<1>5. Dated' /\ Learnt'
  BY <1>1 DEF Dated, Honest, Stamped, Learnt, UpTo
<1>6. StampsAll' /\ CopyServes' /\ NoCopy'
  BY <1>1 DEF StampsAll, CopyServes, NoCopy, NoFailure, AtLeast, Stamped
<1>7. ApiServes'
  BY <1>1, <1>2 DEF ApiServes, NoFailure, AtLeast, Stamped
<1> QED BY <1>3, <1>4, <1>5, <1>6, <1>7

LEMMA EvictInv == ASSUME Inv, Evict PROVE Inv' /\ Held
<1>1. /\ UNCHANGED <<inputs, file, known, readers, owner, backoff, refreshing, lockVars, proc, count>>
      /\ open' \subseteq open /\ (open' # open => readers[Job] = {} /\ owner[Job] = Nobody)
  BY DEF Inv, Types, Evict, Access!Close
<1> USE DEF Inv
<1>2. Holds' = Holds
  BY <1>1 DEF Holds
<1>3. Types' /\ Places' /\ CopyLock' /\ RefreshLock'
  BY <1>1 DEF Types, Places, CopyLock, RefreshLock
<1>4. Exclusion'
  BY <1>1 DEF Exclusion
<1>5. Whole' /\ Held
  BY <1>1, <1>2 DEF Whole, Held, Readable, Stamped, AtLeast, Types
<1>6. Dated' /\ Learnt'
  BY <1>1 DEF Dated, Honest, Stamped, Learnt, UpTo
<1>7. StampsAll' /\ CopyServes' /\ NoCopy'
  BY <1>1 DEF StampsAll, CopyServes, NoCopy, NoFailure, AtLeast, Stamped
<1>8. ApiServes'
  BY <1>1, <1>2 DEF ApiServes, NoFailure, AtLeast, Stamped
<1> QED BY <1>3, <1>4, <1>5, <1>6, <1>7, <1>8

(* A restart may lose what a thread had in hand.                           *)
LEMMA RestartInv == ASSUME Inv, Restart PROVE Inv' /\ count'.stops # count.stops
<1>1. CountsOn /\ count'.stops # count.stops
  <2>1. count' = [count EXCEPT !.stops = @ + 1]
    BY DEF Restart, Counts
  <2> QED BY <2>1, CountsStep DEF Inv, Types, Restart
<1>2. /\ UNCHANGED <<inputs, file, lockVars>> /\ open' = {} /\ owner'[Job] = Nobody /\ readers'[Job] = {}
      /\ readers' \in [{Job} -> SUBSET Threads] /\ owner' \in [{Job} -> Threads \cup {Nobody}]
      /\ known' = Unknown /\ backoff' = FALSE /\ refreshing' = Nobody
  BY DEF Restart
<1>3. /\ proc' \in [Procs -> ProcState]
      /\ \A t \in Threads : proc'[t] = Idle
      /\ \A p \in CliProcs : proc'[p] = proc[p]
  <2>1. Idle \in ProcState
    BY Contents, IdleFields DEF ProcState, Idle, Pcs
  <2> QED BY <2>1, OfProc DEF Restart, Procs, Inv
<1> USE DEF Inv
<1>4. Types'
  BY <1>1, <1>2, <1>3, Contents DEF Types, CountsOn
<1>5. Places' /\ Exclusion' /\ RefreshLock'
  BY <1>2, <1>3, IdleFields DEF Places, Exclusion, RefreshLock, ThreadPcs, Own, Asking, Procs
<1>6. CopyLock' /\ CopyServes'
  BY <1>1, <1>2, <1>3, ThreadStep DEF Procs
<1>7. Whole'
  BY <1>2, <1>3, IdleFields DEF Whole, Carries, Readable, Stamped, Procs
<1>8. Dated'
  BY <1>2, <1>3, IdleFields, Plain DEF Dated, Honest, Types, Known, Procs
<1>9. Learnt'
  BY <1>2, <1>3, IdleFields DEF Learnt, UpTo, Types, Known, Procs
<1>10. StampsAll' /\ NoCopy'
  BY <1>1, <1>2, <1>3, IdleFields DEF StampsAll, NoCopy, NoFailure, CountsOn, Types, Procs
<1>11. ApiServes'
  BY <1>2, <1>3, IdleFields DEF ApiServes
<1> QED BY <1>1, <1>4, <1>5, <1>6, <1>7, <1>8, <1>9, <1>10, <1>11

LEMMA InitInv == Init => Inv
<1> SUFFICES ASSUME Init PROVE Inv
  OBVIOUS
<1>1. /\ inputs = [version |-> 1, digest |-> 1] /\ file = [api |-> Absent, cli |-> Absent]
      /\ open = {} /\ readers = [j \in {Job} |-> {}] /\ owner = [j \in {Job} |-> Nobody]
      /\ known = Unknown /\ backoff = FALSE /\ refreshing = Nobody /\ shared = {} /\ exclusive = Nobody
      /\ proc = [p \in Procs |-> Idle]
      /\ count = [failures |-> 0, requests |-> 0, cliRuns |-> 0, stops |-> 0]
  BY DEF Init, Access!Init
<1>2. Idle \in ProcState
  BY Contents DEF ProcState, Idle, Pcs
<1>3. \A p \in Procs : proc[p] = Idle
  BY <1>1
<1>4. Types
  <2>1. inputs \in Known /\ Unknown \in Known /\ Absent \in Content
    BY <1>1, Contents DEF Known
  <2>2. proc \in [Procs -> ProcState]
    BY <1>1, <1>2
  <2>3. count \in [{"failures", "requests", "cliRuns", "stops"} -> Nat]
    BY <1>1
  <2>4. /\ 1 <= inputs.version /\ inputs.version <= inputs.digest /\ file \in [api : Content, cli : Content]
        /\ readers \in [{Job} -> SUBSET Threads] /\ owner \in [{Job} -> Threads \cup {Nobody}]
    BY <1>1, <2>1
  <2>5. /\ open \subseteq {Job} /\ known \in Known /\ backoff \in BOOLEAN /\ refreshing \in Threads \cup {Nobody}
        /\ shared \subseteq CliProcs /\ exclusive \in CliProcs \cup {Nobody}
    BY <1>1, <2>1
  <2> QED BY <2>1, <2>2, <2>3, <2>4, <2>5 DEF Types
<1>5. Places /\ Exclusion /\ RefreshLock /\ CopyLock
  BY <1>1, <1>3, IdleFields DEF Places, Exclusion, RefreshLock, CopyLock, ThreadPcs, CliPcs, Own,
      Asking, Building, Procs
<1>6. Whole /\ Dated /\ Learnt
  BY <1>1, <1>3, IdleFields, Plain DEF Whole, Dated, Learnt, UpTo, Carries, Procs
<1>7. StampsAll /\ CopyServes /\ NoCopy /\ ApiServes
  BY <1>1, <1>3, IdleFields DEF StampsAll, CopyServes, NoCopy, ApiServes, Procs
<1> QED BY <1>4, <1>5, <1>6, <1>7 DEF Inv

-----------------------------------------------------------------------------
LEMMA LeaseInv == ASSUME Inv, NEW t \in Threads, Lease(t) PROVE Inv' /\ Held
  BY TakesLeaseInv, PreparesInv DEF Lease

LEMMA DoneInv == ASSUME Inv, NEW t \in Threads, Done(t) PROVE Inv' /\ Held
<1>1. proc[t].mode \in {"prepare", "refresh", "rebuild"}
  BY OfProc DEF Inv, ProcState, Procs
<1> QED BY <1>1, DonePrepareInv, DoneRefreshInv, DoneRebuildInv

LEMMA ThreadInv ==
  ASSUME Inv, NEW t \in Threads, BeginRead(t) \/ BeginRebuild(t) \/ ThreadGoesOn(t)
  PROVE  Inv' /\ Held
<1>1. CASE BeginRead(t) \/ BeginRebuild(t)
  BY <1>1, BeginReadInv, BeginRebuildInv
<1>2. CASE \E what \in {"version", "digest"} : Ask(t, what) \/ Unanswered(t, what) \/ KeepAnswer(t, what)
  BY <1>2, AskInv, UnansweredInv, KeepAnswerInv
<1>3. CASE Lease(t) \/ Compare(t) \/ TakeRefreshLock(t) \/ EndRead(t) \/ Seize(t)
  BY <1>3, LeaseInv, CompareInv, TakeRefreshLockInv, EndReadInv, SeizeInv
<1>4. CASE CheckLocal(t) \/ Downloaded(t) \/ Adopt(t) \/ Drop(t)
  BY <1>4, CheckLocalInv, DownloadedInv, AdoptInv, DropInv
<1>5. CASE DigestInputs(t) \/ Gather(t) \/ Finish(t)
  BY <1>5, BuildStep, ThreadBuildsInv DEF Procs
<1>6. CASE BuildRaises(t)
  BY <1>6, ThreadRaisesInv
<1>7. CASE Place(t) \/ Upload(t) \/ Uploaded(t) \/ Done(t)
  BY <1>7, PlaceInv, UploadInv, UploadedInv, DoneInv
<1> QED BY <1>1, <1>2, <1>3, <1>4, <1>5, <1>6, <1>7 DEF ThreadGoesOn, Build

LEMMA CliInv ==
  ASSUME Inv, NEW p \in CliProcs, RunCli(p) \/ CliGoesOn(p)
  PROVE  Inv' /\ Held
<1>1. CASE RunCli(p) \/ Freshness(p) \/ CheckApi(p) \/ OpenApi(p) \/ ReadApi(p)
  BY <1>1, RunCliInv, FreshnessInv, CheckApiInv, OpenApiInv, ReadApiInv
<1>2. CASE Share(p)
  <2>1. CASE Current(file.cli, proc[p].seen)
    BY <1>2, <2>1, ReadsCopyInv DEF Share
  <2>2. CASE ~Current(file.cli, proc[p].seen)
    BY <1>2, <2>2, ShareExcludesInv DEF Share
  <2> QED BY <2>1, <2>2
<1>3. CASE DigestInputs(p) \/ Gather(p) \/ Finish(p)
  <2>1. p \in Procs /\ p \notin Threads /\ known \in Known
    BY DEF Procs, Inv, Types
  <2>2. known' = known
    BY <1>3, <2>1 DEF DigestInputs, Gather, Finish, Known
  <2> QED BY <1>3, <2>1, <2>2, BuildStep, CliBuildsInv
<1>4. CASE BuildRaises(p) \/ Exclude(p) \/ PlaceCopy(p)
  BY <1>4, CliRaisesInv, ExcludeInv, PlaceCopyInv
<1>5. CASE Reshare(p)
  <2>1. CASE file.cli # Absent
    BY <1>5, <2>1, ReadsCopyInv DEF Reshare
  <2>2. CASE file.cli = Absent
    BY <1>5, <2>2, ReshareEndsInv DEF Reshare
  <2> QED BY <2>1, <2>2
<1>6. CASE ReadCopy(p)
  BY <1>6, ReadCopyInv
<1> QED BY <1>1, <1>2, <1>3, <1>4, <1>5, <1>6 DEF CliGoesOn, Build

LEMMA NextInv == ASSUME Inv, [Next]_graphVars PROVE Inv' /\ (Held \/ count'.stops # count.stops)
<1>1. CASE \E t \in Threads : BeginRead(t) \/ BeginRebuild(t) \/ ThreadGoesOn(t)
  BY <1>1, ThreadInv
<1>2. CASE \E p \in CliProcs : RunCli(p) \/ CliGoesOn(p)
  BY <1>2, CliInv
<1>3. CASE WriteArtifacts \/ Expire \/ Evict
  BY <1>3, WriteArtifactsInv, ExpireInv, EvictInv
<1>4. CASE Restart
  BY <1>4, RestartInv
<1>5. CASE UNCHANGED graphVars
  <2>1. Holds' = Holds
    BY <1>5 DEF graphVars, Holds
  <2>2. Types' /\ Places' /\ Exclusion' /\ CopyLock' /\ RefreshLock'
    BY <1>5 DEF Inv, graphVars, Types, Places, Exclusion, CopyLock, RefreshLock
  <2>3. Whole' /\ Dated' /\ Learnt' /\ Held
    BY <1>5, <2>1 DEF Inv, graphVars, Whole, Readable, Stamped, Dated, Honest, Learnt, UpTo, Held,
        AtLeast
  <2>4. StampsAll' /\ CopyServes' /\ NoCopy' /\ ApiServes'
    BY <1>5, <2>1 DEF Inv, graphVars, StampsAll, CopyServes, NoCopy, ApiServes, NoFailure,
        AtLeast, Stamped
  <2> QED BY <2>2, <2>3, <2>4 DEF Inv
<1> QED BY <1>1, <1>2, <1>3, <1>4, <1>5 DEF Next

THEOREM InvHolds == Spec => []Inv
<1>1. Init => Inv
  BY InitInv
<1>2. Inv /\ [Next]_graphVars => Inv'
  BY NextInv
<1> QED BY <1>1, <1>2, PTL DEF Spec

(* Types; and whoever waits for nothing holds nothing: an ended request    *)
(* has given back leases, file and locks, and so has an ended run.         *)
THEOREM GraphTypes == Spec => []GraphTypeOK
<1>1. Inv => GraphTypeOK
  <2> SUFFICES ASSUME Inv PROVE GraphTypeOK
    OBVIOUS
  <2>1. file \in [{"api", "cli"} -> Content]
    BY DEF Inv, Types
  <2>2. ASSUME NEW p \in Procs, At(p, "idle")
        PROVE  proc[p] = Idle /\ p \notin readers[Job] \cup shared /\ p \notin {owner[Job], refreshing, exclusive}
    <3>1. proc[p] = Idle
      BY <2>2 DEF Inv, Places
    <3>2. CASE p \in Threads
      BY <2>2, <3>1, <3>2, IdleFields DEF Inv, Types, Exclusion, RefreshLock, Own, Asking
    <3>3. CASE p \in CliProcs
      BY <2>2, <3>1, <3>3 DEF Inv, Types, CopyLock, Building
    <3> QED BY <3>1, <3>2, <3>3 DEF Procs
  <2> QED BY <2>1, <2>2 DEF Inv, Types, ProcState, GraphTypeOK
<1> QED BY <1>1, InvHolds, PTL

(* No request is served a file half written, whatever was stopped in the   *)
(* middle of a write before.                                               *)
THEOREM TornNeverServed == Spec => []NeverServesTorn
<1>1. Inv => NeverServesTorn
  BY DEF Inv, Exclusion, Whole, NeverServesTorn
<1> QED BY <1>1, InvHolds, PTL

(* A graph that passes for current was read from the artifacts as they     *)
(* are now, all of it, however they changed while it was built.            *)
THEOREM CurrentIsFresh == Spec => []CurrentMeansFresh
<1>1. Inv => CurrentMeansFresh
  <2> SUFFICES ASSUME Inv, NEW path \in {"api", "cli"}, Current(file[path], inputs)
               PROVE  file[path].read = {inputs.digest}
    BY DEF CurrentMeansFresh
  <2> DEFINE g == file[path]
  <2>1. Honest(g) /\ inputs.digest \in Nat /\ 1 <= inputs.digest
    BY DEF Inv, Types, Known, Dated
  <2> HIDE DEF g
  <2>2. g \in Graph /\ g.digest = inputs.digest
    BY <2>1 DEF Current, Stamped, g
  <2>3. g.read # {} /\ g.read \subseteq inputs.digest .. inputs.digest
    BY <2>1, <2>2 DEF Honest, Stamped
  <2>4. g.read = {inputs.digest}
    BY <2>1, <2>3
  <2> QED BY <2>4 DEF g
<1> QED BY <1>1, InvHolds, PTL

(* A request that has learnt of a version or a digest is not served an     *)
(* older graph, as long as the store answers and no run has left a copy.   *)
THEOREM RequestsServed == Spec => []ServesWhatItSaw
<1>1. Inv => ServesWhatItSaw
  <2> SUFFICES ASSUME Inv, NEW t \in Threads, At(t, "leased"), proc[t].want = "read",
                      count.failures = 0, count.cliRuns = 0
               PROVE  AtLeast(file.api, proc[t].seen)
    BY DEF ServesWhatItSaw, AtLeast
  <2>1. Stamped(file.api)
    BY DEF Inv, Exclusion, Whole, StampsAll, NoFailure, Readable
  <2>2. Holds = file.api
    BY <2>1 DEF Holds, Stamped
  <2>3. proc[t].seen = Unknown \/ AtLeast(file.api, proc[t].seen)
    BY <2>2 DEF Inv, ApiServes, NoFailure
  <2> QED BY <2>1, <2>3, IdleFields DEF AtLeast, Stamped, Graph
<1> QED BY <1>1, InvHolds, PTL

(* A run of the command line that reads the copy reads a graph of the      *)
(* artifacts it has seen or of newer ones, as long as the store answers.   *)
THEOREM RunsServed == Spec => []CliServesWhatItSaw
<1>1. Inv => CliServesWhatItSaw
  <2> SUFFICES ASSUME Inv, NEW p \in CliProcs, At(p, "readCopy"), count.failures = 0
               PROVE  AtLeast(Seen(p), proc[p].seen)
    BY DEF CliServesWhatItSaw, AtLeast
  <2>1. AtLeast(proc[p].view, proc[p].seen)
    BY DEF Inv, CopyServes, NoFailure
  <2>2. proc[p].view # Theirs
    BY <2>1 DEF AtLeast, Stamped
  <2> QED BY <2>1, <2>2 DEF Seen
<1> QED BY <1>1, InvHolds, PTL

(* Once the API's file holds a stamped graph it holds one ever after, the  *)
(* moments aside when one is being written to it, unless the API is        *)
(* stopped then.                                                           *)
THEOREM GraphKept == Spec => WholeGraphKept
<1>1. Inv /\ [Next]_graphVars => (Stamped(Holds) => Stamped(Holds') \/ count'.stops # count.stops)
  BY NextInv DEF Held
<1>2. Inv /\ [Next]_graphVars => [Stamped(Holds) => Stamped(Holds') \/ count'.stops # count.stops]_graphVars
  BY <1>1
<1> QED BY <1>2, InvHolds, PTL DEF Spec, WholeGraphKept
=============================================================================
