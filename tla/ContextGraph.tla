---------------------------- MODULE ContextGraph ----------------------------
(***************************************************************************)
(* The context graph of one job, as the local API and the command line     *)
(* share it: src/api/routes/graph.py, src/graph/job_graph.py and           *)
(* src/graph/persistence.py.  The graph is a view of the job's artifacts,  *)
(* stamped with the assignment version and the digest of the artifacts it  *)
(* was built from; a reader that finds the stamp behind has it rebuilt.    *)
(*                                                                         *)
(* The API's threads reach their file through the cache of handles, here   *)
(* by what it promises (GraphFileAccess).  The command line reads the      *)
(* API's file without asking, or a copy of its own under a file lock,      *)
(* which the API may adopt.  With the local store, the key a graph is      *)
(* uploaded under and downloaded from is the API's file itself.            *)
(***************************************************************************)
EXTENDS Naturals, FiniteSets

CONSTANTS
    Job,           \* the key of the job in the cache
    Threads,       \* request threads of the API
    CliProcs,      \* runs of graph_query.py and run_report.py
    Nobody,
    Absent,        \* there is no file at the path
    Torn,          \* what a file holds between a truncation and a write
    Partial,       \* an unstamped graph: an artifact could not be read
    Theirs,        \* a handle on the file at the API's path, not on one moved away
    MaxInputs,     \* bound: states of the artifacts
    MaxFailures,   \* bound: reads of the store that fail
    MaxRequests,   \* bound: requests to the API
    MaxCliRuns,    \* bound: runs of the command line
    MaxStops,      \* bound: times the API is stopped and started
    Evictions      \* whether other jobs may push the handle out of the cache

ASSUME GraphAssumption ==
    /\ Nobody \notin Threads \cup CliProcs /\ Threads \cap CliProcs = {}
    /\ MaxInputs \in Nat \ {0} /\ {MaxFailures, MaxRequests, MaxCliRuns, MaxStops} \subseteq Nat
    /\ Evictions \in BOOLEAN

VARIABLES
    inputs,     \* the artifacts: effective version and digest, as numbers
    file,       \* graph/context.lbug and graph/cli/context.lbug
    open, readers, owner,        \* GraphFileAccess
    known,      \* version and digest the API keeps for a while, 0 when expired
    backoff,    \* a rebuild failed a moment ago
    refreshing, \* the thread that holds the job's refresh lock
    shared, exclusive,           \* who holds the lock of the command line's copy
    proc,       \* the API's threads and the command line's runs
    count       \* failed reads, requests, command line runs and stops so far

accessVars == <<open, readers, owner>>
lockVars == <<shared, exclusive>>
graphVars == <<inputs, file, accessVars, known, backoff, refreshing, lockVars, proc, count>>

Access == INSTANCE GraphFileAccess WITH Jobs <- {Job}

Procs == Threads \cup CliProcs
Known == [version : 0 .. MaxInputs, digest : 0 .. MaxInputs]
Unknown == [version |-> 0, digest |-> 0]

(* A stamp, and the states of the artifacts in which they were read.       *)
Graph == [version : 1 .. MaxInputs, digest : 1 .. MaxInputs, read : SUBSET (1 .. MaxInputs)]

ASSUME ContentAssumption ==
    /\ Absent \notin {Torn, Partial, Theirs} /\ Torn \notin {Partial, Theirs} /\ Partial # Theirs
    /\ {Absent, Torn, Partial, Theirs} \cap Graph = {}

(* is_current_graph_file: stamped, and with what is known of the version   *)
(* and the digest; 0 is not known, and not checked.                        *)
Stamped(g) == g \in Graph
CurrentVersion(g, seen) ==    \* a mutant of the next: the digest is not compared
    Stamped(g) /\ seen.version \in {0, g.version}
Current(g, seen) ==
    Stamped(g) /\ seen.version \in {0, g.version} /\ seen.digest \in {0, g.digest}

Readable(g) == Stamped(g) \/ g = Partial

-----------------------------------------------------------------------------
(* Of a thread or a run: where it is; what it wants the lease for; on      *)
(* whose behalf it owns the file; what it knows of the artifacts when it   *)
(* looks for a current graph and, in a thread, when it prepares the file;  *)
(* whether it has refreshed; the digest and the states of the artifacts    *)
(* its build has met; the graph it holds; the handle a run has open.       *)
Idle == [pc |-> "idle", want |-> "read", mode |-> "prepare", seen |-> Unknown, goal |-> Unknown,
         refreshed |-> FALSE, digest |-> 0, met |-> {}, graph |-> Absent, view |-> Absent]

At(t, pc) == proc[t].pc = pc
Becomes(t, r) == proc' = [proc EXCEPT ![t] = r]
Goto(t, pc) == Becomes(t, [proc[t] EXCEPT !.pc = pc])
Goes(t, pc, mode) == Becomes(t, [proc[t] EXCEPT !.pc = pc, !.mode = mode])
Keeps(t, pc, g) == Becomes(t, [proc[t] EXCEPT !.pc = pc, !.graph = g])
Opens(p, pc, view) == Becomes(p, [proc[p] EXCEPT !.pc = pc, !.view = view])
Wants(t, pc, want) == Becomes(t, [proc[t] EXCEPT !.pc = pc, !.want = want])
ReadsOn(t) == Wants(t, "lease", "read")
Sees(p, what, value, pc) == Becomes(p, [proc[p] EXCEPT !.pc = pc, !.seen[what] = value])
Aims(t, what, value, pc) == Becomes(t, [proc[t] EXCEPT !.pc = pc, !.goal[what] = value])
Ends(t) == Becomes(t, Idle)

Counts(what, bound) == count[what] < bound /\ count' = [count EXCEPT ![what] = @ + 1]
Fails == Counts("failures", MaxFailures)
Works == UNCHANGED count

(* A run's handle on the API's file stays with the file it opened: a       *)
(* rename takes the path away from it, a write to the path does not.       *)
MoveOver(t, g, pc) ==
    /\ file' = [file EXCEPT !.api = g]
    /\ proc' = [p \in Procs |->
                  IF p = t THEN [proc[p] EXCEPT !.pc = pc]
                  ELSE IF proc[p].view = Theirs THEN [proc[p] EXCEPT !.view = file.api]
                  ELSE proc[p]]

WriteInPlace(g) == file' = [file EXCEPT !.api = g]

Seen(p) == IF proc[p].view = Theirs THEN file.api ELSE proc[p].view

-----------------------------------------------------------------------------
(* _effective_assignment_version and _inputs_digest, for the refresh or    *)
(* for a preparation: what is kept, or what the store answers, kept after  *)
(* the read, or unknown when the read fails.                               *)
Knows(t) == IF owner[Job] = t THEN proc[t].goal ELSE proc[t].seen
Learns(t, what, value, pc) ==
    IF owner[Job] = t THEN Aims(t, what, value, pc) ELSE Sees(t, what, value, pc)

Keeping == [version |-> "keepVersion", digest |-> "keepDigest"]
AfterAsking(t, what) == IF what = "version" THEN "digest"
                        ELSE IF owner[Job] = t THEN "local" ELSE "lease"

Ask(t, what) ==
    /\ At(t, what)
    /\ \/ known[what] # 0 /\ Learns(t, what, known[what], AfterAsking(t, what)) /\ Works
       \/ known[what] = 0 /\ Learns(t, what, inputs[what], Keeping[what]) /\ Works
    /\ UNCHANGED <<inputs, file, accessVars, known, backoff, refreshing, lockVars>>

(* Without a version the open graph is served, or any local one.           *)
Unanswered(t, what) ==
    /\ At(t, what) /\ known[what] = 0 /\ Fails
    /\ \/ what = "digest" /\ Goto(t, AfterAsking(t, what))
       \/ what = "version" /\ owner[Job] = t /\ Goto(t, "local")
       \/ /\ what = "version" /\ owner[Job] # t
          /\ ReadsOn(t)
    /\ UNCHANGED <<inputs, file, accessVars, known, backoff, refreshing, lockVars>>

KeepAnswer(t, what) ==
    /\ At(t, Keeping[what])
    /\ known' = [known EXCEPT ![what] = Knows(t)[what]]
    /\ Goto(t, AfterAsking(t, what))
    /\ UNCHANGED <<inputs, file, accessVars, backoff, refreshing, lockVars, count>>

-----------------------------------------------------------------------------
(* graph_lease: _refresh_if_behind begins, and has nothing to do when the  *)
(* file is not open or a rebuild has just failed.  The rebuild route has   *)
(* the file rebuilt whatever it holds.                                     *)
BeginRead(t) ==
    /\ At(t, "idle") /\ Counts("requests", MaxRequests)
    /\ \/ (open = {} \/ backoff) /\ ReadsOn(t)
       \/ ~(open = {} \/ backoff) /\ Wants(t, "version", "compare")
    /\ UNCHANGED <<inputs, file, accessVars, known, backoff, refreshing, lockVars>>

BeginRebuild(t) ==
    /\ At(t, "idle") /\ Counts("requests", MaxRequests)
    /\ Goes(t, "seize", "rebuild")
    /\ UNCHANGED <<inputs, file, accessVars, known, backoff, refreshing, lockVars>>

(* cache.reader: the lease, or the preparation of the file when there is   *)
(* no handle (_prepare_graph_file).                                        *)
LeaseUnchecked(t) ==    \* a mutant of the next: a file that is there is opened
    /\ At(t, "lease")
    /\ \/ Access!Lease(t, Job) /\ Goto(t, "leased")
       \/ /\ open = {} /\ Access!Seize(t, Job)
          /\ Becomes(t, [proc[t] EXCEPT !.mode = "prepare", !.goal = Unknown,
                !.pc = IF file.api # Absent THEN "done"
                          ELSE IF backoff THEN "local" ELSE "version"])
    /\ UNCHANGED <<inputs, file, known, backoff, refreshing, lockVars, count>>

Lease(t) ==
    /\ At(t, "lease")
    /\ \/ Access!Lease(t, Job) /\ Goto(t, "leased")
       \/ /\ open = {} /\ Access!Seize(t, Job)
          /\ Becomes(t, [proc[t] EXCEPT !.mode = "prepare", !.goal = Unknown,
                !.pc = IF proc[t].refreshed /\ file.api # Absent THEN "done"
                          ELSE IF backoff THEN "local" ELSE "version"])
    /\ UNCHANGED <<inputs, file, known, backoff, refreshing, lockVars, count>>

(* _open_graph_is_current, before and after the refresh lock is taken.     *)
Compare(t) ==
    /\ At(t, "leased") /\ proc[t].want \in {"compare", "recheck"}
    /\ Access!Release(t, Job)
    /\ LET current == Current(file.api, proc[t].seen) IN
       /\ \/ current /\ ReadsOn(t)
          \/ ~current /\ proc[t].want = "compare" /\ Goto(t, "refreshLock")
          \/ ~current /\ proc[t].want = "recheck" /\ Goes(t, "seize", "refresh")
       /\ refreshing' = IF current /\ refreshing = t THEN Nobody ELSE refreshing
    /\ UNCHANGED <<inputs, file, known, backoff, lockVars, count>>

TakeRefreshLock(t) ==
    /\ At(t, "refreshLock") /\ refreshing = Nobody
    /\ \/ backoff /\ ReadsOn(t) /\ UNCHANGED refreshing
       \/ ~backoff /\ Wants(t, "lease", "recheck") /\ refreshing' = t
    /\ UNCHANGED <<inputs, file, accessVars, known, backoff, lockVars, count>>

EndRead(t) ==
    /\ At(t, "leased") /\ proc[t].want = "read"
    /\ Access!Release(t, Job) /\ Ends(t)
    /\ UNCHANGED <<inputs, file, known, backoff, refreshing, lockVars, count>>

-----------------------------------------------------------------------------
(* cache.exclusive, and what is done with the file: is it current after    *)
(* all; else a preparation downloads it, which with the local store reads  *)
(* and writes this very file; else the command line's copy is adopted.     *)
Seize(t) ==
    /\ At(t, "seize") /\ Access!Seize(t, Job)
    /\ Goto(t, IF proc[t].mode = "refresh" THEN "local" ELSE "build")
    /\ UNCHANGED <<inputs, file, known, backoff, refreshing, lockVars, count>>

GoalOfPreparation(t) == proc[t].goal    \* a mutant of the next: a refresh takes any graph
Goal(t) == IF proc[t].mode = "refresh" THEN proc[t].seen ELSE proc[t].goal

CheckLocal(t) ==
    /\ At(t, "local")
    /\ \/ Current(file.api, Goal(t)) /\ Goto(t, "done") /\ UNCHANGED file
       \/ /\ ~Current(file.api, Goal(t)) /\ (proc[t].mode = "refresh" \/ file.api = Absent)
          /\ Goto(t, "adopt") /\ UNCHANGED file
       \/ /\ ~Current(file.api, Goal(t)) /\ proc[t].mode = "prepare" /\ file.api # Absent
          /\ WriteInPlace(Torn) /\ Keeps(t, "downloaded", file.api)
    /\ UNCHANGED <<inputs, accessVars, known, backoff, refreshing, lockVars, count>>

Downloaded(t) ==
    /\ At(t, "downloaded")
    /\ WriteInPlace(proc[t].graph) /\ Keeps(t, "adopt", Absent)
    /\ UNCHANGED <<inputs, accessVars, known, backoff, refreshing, lockVars, count>>

(* adopt_cli_copy: the copy is checked and copied under its shared lock,   *)
(* and removed when nobody holds the lock.  A copy that cannot be read is  *)
(* not adopted.                                                            *)
Adopt(t) ==
    /\ At(t, "adopt")
    /\ file.cli = Absent \/ exclusive = Nobody
    /\ \/ Current(file.cli, Goal(t)) /\ MoveOver(t, file.cli, "drop") /\ Works
       \/ /\ Goto(t, "build") /\ UNCHANGED file
          /\ IF Current(file.cli, Goal(t)) THEN Fails ELSE Works
    /\ UNCHANGED <<inputs, accessVars, known, backoff, refreshing, lockVars>>

CopyRemoved == IF shared = {} /\ exclusive = Nobody THEN [file EXCEPT !.cli = Absent] ELSE file

Drop(t) ==
    /\ At(t, "drop")
    /\ file' = CopyRemoved /\ Goto(t, "done")
    /\ UNCHANGED <<inputs, accessVars, known, backoff, refreshing, lockVars, count>>

-----------------------------------------------------------------------------
(* rebuild_graph, of a thread or a run: the digest first, then the         *)
(* artifacts, with the assignment version among them; without the digest   *)
(* or with an artifact that could not be read the graph is not stamped.    *)
Digests(t, digest) == Becomes(t, [proc[t] EXCEPT !.pc = "gather", !.digest = digest])
Meets(t, met) == Becomes(t, [proc[t] EXCEPT !.pc = "finish", !.met = met])
Finished(t, g) == Becomes(t, [proc[t] EXCEPT !.pc = "place", !.digest = 0, !.met = {}, !.graph = g])

DigestInputs(t) ==
    /\ At(t, "build")
    /\ \/ Digests(t, inputs.digest) /\ Works
       \/ Digests(t, 0) /\ Fails
    /\ known' = [known EXCEPT !.digest = IF t \in Threads THEN 0 ELSE @]
    /\ UNCHANGED <<inputs, file, accessVars, backoff, refreshing, lockVars>>

Gather(t) ==
    /\ At(t, "gather")
    /\ \/ Meets(t, {inputs.digest}) /\ Works
       \/ Meets(t, {}) /\ Fails
    /\ UNCHANGED <<inputs, file, accessVars, known, backoff, refreshing, lockVars>>

BuiltDigestLast(t) ==    \* a mutant of the next: the digest is taken after the reads
    IF proc[t].digest = 0 \/ proc[t].met = {} THEN Partial
    ELSE [version |-> inputs.version, digest |-> inputs.digest, read |-> proc[t].met \cup {inputs.digest}]
Built(t) ==
    IF proc[t].digest = 0 \/ proc[t].met = {} THEN Partial
    ELSE [version |-> inputs.version, digest |-> proc[t].digest, read |-> proc[t].met \cup {inputs.digest}]

Finish(t) ==
    /\ At(t, "finish")
    /\ \/ Finished(t, Built(t)) /\ Works
       \/ Finished(t, Partial) /\ Fails
    /\ UNCHANGED <<inputs, file, accessVars, known, backoff, refreshing, lockVars>>

(* The listing of the versions raises, and so does the build: whoever      *)
(* builds gives back what it holds.                                        *)
BuildRaisesHolding(t) ==    \* a mutant of the next: the file is not given back
    /\ At(t, "finish") /\ Fails
    /\ Ends(t)
    /\ refreshing' = IF refreshing = t THEN Nobody ELSE refreshing
    /\ exclusive' = IF exclusive = t THEN Nobody ELSE exclusive
    /\ UNCHANGED <<inputs, file, accessVars, known, backoff, shared>>
BuildRaises(t) ==
    /\ At(t, "finish") /\ Fails
    /\ Ends(t)
    /\ IF t \in Threads THEN Access!Yield(t, Job) ELSE UNCHANGED accessVars
    /\ refreshing' = IF refreshing = t THEN Nobody ELSE refreshing
    /\ exclusive' = IF exclusive = t THEN Nobody ELSE exclusive
    /\ UNCHANGED <<inputs, file, known, backoff, shared>>

(* build_graph_file: a graph that is not whole does not replace a stamped  *)
(* one, and is not uploaded.                                               *)
ReplacesAny(g, old) == TRUE    \* a mutant of the next
Replaces(g, old) == Stamped(g) \/ ~Stamped(old)

Place(t) ==
    /\ At(t, "place") /\ t \in Threads
    /\ LET g == proc[t].graph IN
       /\ backoff' = ~Stamped(g)
       /\ \/ Stamped(g) /\ MoveOver(t, g, "upload")
          \/ ~Stamped(g) /\ Replaces(g, file.api) /\ MoveOver(t, g, "done")
          \/ ~Replaces(g, file.api) /\ Goto(t, "done") /\ UNCHANGED file
    /\ UNCHANGED <<inputs, accessVars, known, refreshing, lockVars, count>>

Upload(t) ==
    /\ At(t, "upload") /\ WriteInPlace(Torn) /\ Goto(t, "uploaded")
    /\ UNCHANGED <<inputs, accessVars, known, backoff, refreshing, lockVars, count>>

Uploaded(t) ==
    /\ At(t, "uploaded")
    /\ WriteInPlace(proc[t].graph) /\ Keeps(t, "done", Absent)
    /\ UNCHANGED <<inputs, accessVars, known, backoff, refreshing, lockVars, count>>

(* A refresh that could not build a whole graph backs off once more.       *)
Done(t) ==
    /\ At(t, "done")
    /\ \/ /\ proc[t].mode = "prepare" /\ Access!OpenAndLease(t, Job)
          /\ Keeps(t, "leased", Absent)
       \/ /\ proc[t].mode = "refresh" /\ Access!Yield(t, Job)
          /\ Becomes(t, [proc[t] EXCEPT !.pc = "lease", !.want = "read",
                                        !.refreshed = TRUE, !.graph = Absent])
       \/ proc[t].mode = "rebuild" /\ Access!Yield(t, Job) /\ Ends(t)
    /\ backoff' = (backoff \/ (proc[t].mode = "refresh" /\ proc[t].graph = Partial))
    /\ refreshing' = IF refreshing = t /\ proc[t].mode = "refresh" THEN Nobody ELSE refreshing
    /\ UNCHANGED <<inputs, file, known, lockVars, count>>

-----------------------------------------------------------------------------
(* open_job_graph: freshness, then the API's file when it is current and   *)
(* can be opened.                                                          *)
apiVars == <<accessVars, known, backoff, refreshing>>

RunCli(p) ==
    /\ At(p, "idle") /\ Counts("cliRuns", MaxCliRuns)
    /\ Goto(p, "version")
    /\ UNCHANGED <<inputs, file, apiVars, lockVars>>

Freshness(p) ==
    /\ At(p, "version") \/ At(p, "digest")
    /\ LET what == proc[p].pc
           next == IF what = "version" THEN "digest" ELSE "api" IN
       \/ Sees(p, what, inputs[what], next) /\ Works
       \/ Goto(p, "api") /\ Fails
    /\ UNCHANGED <<inputs, file, apiVars, lockVars>>

CheckApi(p) ==
    /\ At(p, "api")
    /\ Goto(p, IF Current(file.api, proc[p].seen) THEN "openApi" ELSE "share")
    /\ UNCHANGED <<inputs, file, apiVars, lockVars, count>>

OpenApi(p) ==
    /\ At(p, "openApi")
    /\ \/ Readable(file.api) /\ Opens(p, "readApi", Theirs)
       \/ ~Readable(file.api) /\ Goto(p, "share")
    /\ UNCHANGED <<inputs, file, apiVars, lockVars, count>>

ReadApi(p) ==
    /\ At(p, "readApi") /\ Ends(p)
    /\ file' = CopyRemoved
    /\ UNCHANGED <<inputs, apiVars, lockVars, count>>

(* Otherwise the copy: read under the shared lock when it is current, else *)
(* built under the exclusive one unless another run has built it, and read *)
(* under the shared lock, which leaves the exclusive one first.            *)
ReadsCopy(p) == shared' = shared \cup {p} /\ Opens(p, "readCopy", file.cli)

Share(p) ==
    /\ At(p, "share") /\ exclusive = Nobody
    /\ IF Current(file.cli, proc[p].seen) THEN ReadsCopy(p)
       ELSE Goto(p, "exclude") /\ UNCHANGED shared
    /\ UNCHANGED <<inputs, file, apiVars, exclusive, count>>

Exclude(p) ==
    /\ At(p, "exclude") /\ exclusive = Nobody /\ shared = {}
    /\ IF Current(file.cli, proc[p].seen) THEN Goto(p, "reshare") /\ UNCHANGED exclusive
       ELSE Goto(p, "build") /\ exclusive' = p
    /\ UNCHANGED <<inputs, file, apiVars, shared, count>>

PlaceCopy(p) ==
    /\ At(p, "place") /\ p \in CliProcs
    /\ file' = [file EXCEPT !.cli = IF Replaces(proc[p].graph, @) THEN proc[p].graph ELSE @]
    /\ Keeps(p, "reshare", Absent)
    /\ exclusive' = Nobody
    /\ UNCHANGED <<inputs, apiVars, shared, count>>

Reshare(p) ==
    /\ At(p, "reshare") /\ exclusive = Nobody
    /\ IF file.cli # Absent THEN ReadsCopy(p) ELSE Ends(p) /\ UNCHANGED shared
    /\ UNCHANGED <<inputs, file, apiVars, exclusive, count>>

ReadCopy(p) ==
    /\ At(p, "readCopy") /\ Ends(p)
    /\ shared' = shared \ {p}
    /\ UNCHANGED <<inputs, file, apiVars, exclusive, count>>

-----------------------------------------------------------------------------
(* Around them: phases and edits write artifacts, with a new version or    *)
(* not; what is kept expires; other jobs push the handle out; the API is   *)
(* stopped, with whatever its threads were at, and started.                *)
WriteArtifacts ==
    /\ inputs.digest < MaxInputs
    /\ \E n \in 0 .. 1 : inputs' = [version |-> inputs.version + n, digest |-> inputs.digest + 1]
    /\ UNCHANGED <<file, apiVars, lockVars, proc, count>>

Expire ==
    /\ \/ \E what \in {"version", "digest"} :
             known[what] # 0 /\ known' = [known EXCEPT ![what] = 0] /\ UNCHANGED backoff
       \/ backoff /\ backoff' = FALSE /\ UNCHANGED known
    /\ UNCHANGED <<inputs, file, accessVars, refreshing, lockVars, proc, count>>

Evict ==
    /\ Evictions /\ open # {} /\ Access!Close
    /\ UNCHANGED <<inputs, file, known, backoff, refreshing, lockVars, proc, count>>

Restart ==
    /\ Counts("stops", MaxStops)
    /\ open' = {} /\ readers' = [j \in {Job} |-> {}] /\ owner' = [j \in {Job} |-> Nobody]
    /\ known' = Unknown /\ backoff' = FALSE /\ refreshing' = Nobody
    /\ proc' = [p \in Procs |-> IF p \in Threads THEN Idle ELSE proc[p]]
    /\ UNCHANGED <<inputs, file, lockVars>>

-----------------------------------------------------------------------------
Init ==
    /\ inputs = [version |-> 1, digest |-> 1]
    /\ file = [api |-> Absent, cli |-> Absent]
    /\ Access!Init
    /\ known = Unknown /\ backoff = FALSE /\ refreshing = Nobody
    /\ shared = {} /\ exclusive = Nobody
    /\ proc = [p \in Procs |-> Idle]
    /\ count = [failures |-> 0, requests |-> 0, cliRuns |-> 0, stops |-> 0]

Build(p) == DigestInputs(p) \/ Gather(p) \/ Finish(p) \/ BuildRaises(p)

ThreadGoesOn(t) ==
    \/ \E what \in {"version", "digest"} : Ask(t, what) \/ Unanswered(t, what) \/ KeepAnswer(t, what)
    \/ Lease(t) \/ Compare(t) \/ TakeRefreshLock(t) \/ EndRead(t) \/ Seize(t)
    \/ CheckLocal(t) \/ Downloaded(t) \/ Adopt(t) \/ Drop(t)
    \/ Build(t) \/ Place(t) \/ Upload(t) \/ Uploaded(t) \/ Done(t)

CliGoesOn(p) ==
    \/ Freshness(p) \/ CheckApi(p) \/ OpenApi(p) \/ ReadApi(p) \/ Share(p) \/ Exclude(p)
    \/ Build(p) \/ PlaceCopy(p) \/ Reshare(p) \/ ReadCopy(p)

Next ==
    \/ \E t \in Threads : BeginRead(t) \/ BeginRebuild(t) \/ ThreadGoesOn(t)
    \/ \E p \in CliProcs : RunCli(p) \/ CliGoesOn(p)
    \/ WriteArtifacts \/ Expire \/ Evict \/ Restart

Spec == Init /\ [][Next]_graphVars

(* Threads and processes run, and a lock that is free is got in the end.   *)
FairSpec ==
    /\ Spec
    /\ \A t \in Threads : WF_graphVars(ThreadGoesOn(t))
    /\ \A p \in CliProcs : WF_graphVars(CliGoesOn(p))

-----------------------------------------------------------------------------
(* Types; and whoever waits for nothing holds nothing.                     *)
Pcs == {"idle", "version", "keepVersion", "digest", "keepDigest", "lease", "leased",
        "refreshLock", "seize", "local", "downloaded", "adopt", "drop", "build", "gather",
        "finish", "place", "upload", "uploaded", "done",
        "api", "openApi", "readApi", "share", "exclude", "reshare", "readCopy"}
Content == Graph \cup {Absent, Torn, Partial}

GraphTypeOK ==
    /\ inputs \in Known /\ known \in Known
    /\ file \in [{"api", "cli"} -> Content]
    /\ open \subseteq {Job} /\ readers \in [{Job} -> SUBSET Threads]
    /\ owner \in [{Job} -> Threads \cup {Nobody}]
    /\ backoff \in BOOLEAN /\ refreshing \in Threads \cup {Nobody}
    /\ shared \subseteq CliProcs /\ exclusive \in CliProcs \cup {Nobody}
    /\ proc \in [Procs -> [pc : Pcs, want : {"read", "compare", "recheck"},
                           mode : {"prepare", "refresh", "rebuild"}, seen : Known, goal : Known,
                           refreshed : BOOLEAN, digest : 0 .. MaxInputs,
                           met : SUBSET (1 .. MaxInputs), graph : Content,
                           view : Content \cup {Theirs}]]
    /\ \A p \in Procs : At(p, "idle") =>
          proc[p] = Idle /\ p \notin readers[Job] \cup shared /\ p \notin {owner[Job], refreshing, exclusive}

(* "an artifact rewritten during the build leaves the graph behind the     *)
(* digest, so the next read rebuilds it" (graph/populators.py:1580): a     *)
(* graph that passes for current was read from the artifacts as they are   *)
(* now, all of it, however they changed while it was built.                *)
CurrentMeansFresh ==
    \A path \in {"api", "cli"} :
       Current(file[path], inputs) => file[path].read = {inputs.digest}

(* A failed build "leaves the previous graph intact" and "reads while the  *)
(* artifact store is failing keep serving the previous graph"              *)
(* (api/routes/graph.py:105): once the API's file holds a stamped graph it *)
(* holds one ever after, the moments aside when one is being written to    *)
(* it, unless the API is stopped then.                                     *)
Holds == IF file.api = Torn /\ owner[Job] # Nobody THEN proc[owner[Job]].graph ELSE file.api
WholeGraphKept == [][Stamped(Holds) => Stamped(Holds') \/ count'.stops # count.stops]_graphVars

(* What a request reads is a graph, never a file half written, whatever    *)
(* stopped in the middle of a write before.                                *)
NeverServesTorn ==
    \A t \in Threads : At(t, "leased") => Readable(file.api)

(* A request that has learnt of a version or a digest is not served an     *)
(* older graph, as long as the store answers and there is no copy of the   *)
(* command line to adopt.                                                  *)
ServesWhatItSaw ==
    \A t \in Threads : At(t, "leased") /\ proc[t].want = "read" /\ count.failures = 0 /\ count.cliRuns = 0 =>
       /\ Stamped(file.api)
       /\ proc[t].seen.version <= file.api.version /\ proc[t].seen.digest <= file.api.digest

(* A run of the command line reads a graph of the artifacts it has seen or *)
(* of newer ones, as long as the store answers.                            *)
CliServesWhatItSaw ==
    \A p \in CliProcs : At(p, "readCopy") /\ count.failures = 0 =>
       /\ Stamped(Seen(p))
       /\ proc[p].seen.version <= Seen(p).version /\ proc[p].seen.digest <= Seen(p).digest

(* "every step rechecks freshness after it gets its lock"                  *)
(* (graph/job_graph.py:468): the copy a run has built, or found built by   *)
(* another, is there when the run gets the shared lock to read it.         *)
(* Not kept: README, section 4.                                            *)
CopyIsThere == [][\A p \in CliProcs : At(p, "reshare") /\ ~At(p, "reshare")' => At(p, "readCopy")']_graphVars

(* "an open handle keeps the file it opened"                               *)
(* (docs/guides/context-graph-query-cookbook.md:79).                       *)
(* Not kept: README, section 4.                                            *)
HandleKeepsFile == \A p \in CliProcs : At(p, "readApi") => Readable(Seen(p))

(* "A new version shows up on the first read after the entry expires"      *)
(* (api/routes/graph.py:102): what was learnt from the store is served.    *)
(* Not kept: README, section 4.                                            *)
NewVersionShowsUp ==
    \A t \in Threads : At(t, "leased") /\ proc[t].want = "read" /\ count.failures = 0 =>
       Stamped(file.api) /\ proc[t].seen.version <= file.api.version

(* Every request to the API and every run of the command line ends, whoever *)
(* holds which lock meanwhile.                                             *)
GraphRequestReturns == \A p \in Procs : ~At(p, "idle") ~> At(p, "idle")
=============================================================================
