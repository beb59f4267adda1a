# Formal model of the GenAI database modernizer's job pipeline

The program assesses a relational database and designs its move to purpose-built
AWS engines. One assessment is a *job*: a directory of JSON artifacts that is
filled phase by phase. What happens next to a job is decided by small files, read
and rewritten by processes that share no lock: the local API,
`scripts/run_assessment.py`, the `scripts/run_*.py` entry points a chat agent
calls, and the customer at the review gates. This directory models that part of
the system in three parts:

- the **status** of a job: phases, their prerequisites, failure markers, the
  review gate and cancellation (`PhaseOrchestrator`, `PhaseScripts`,
  `JobLifecycle`);
- its **versions**: the assignment of queries to engines, edited, re-routed,
  consolidated and rolled back by five writers, and the schema designs that
  follow it (`AssignmentFlow`, `SchemaFlow`);
- its **context graph**: a database file built from the artifacts, shared by the
  API's request threads and the command line, and rebuilt when a reader finds it
  behind (`GraphCache`, `ContextGraph`).

Sections 1 and 2 are the survey and the plan; sections 3 to 7 say what the
modules model, what TLC and TLAPS establish about them, and what is left out.

## 1. Inventory

| Component | State it keeps | Operations | Hard behaviour | What makes it correct |
|---|---|---|---|---|
| Phase contract (`src/src/contracts/phase_models.py`) | none: enums, prerequisites, the one skip that satisfies one | - | - | prerequisites form a chain, with two leaves after schema design |
| `LocalOrchestrator` (`src/src/orchestrator/local_orchestrator.py`) | `.meta/<job>.json`, the `PhaseProgression` | `start_job`, `resume`, `resume_lenient`, `confirm_schema_design`, `get_progression` | loads the progression once, works for minutes, writes it back whole; recursion over prerequisites that re-reads the file; a phase may raise, exit or be killed | a phase runs only after its prerequisites; COMPLETED is backed by output; a failure is recorded; every call returns |
| `run_assessment.py` | the same file, by assignment; `.modernizer-state.json` | the whole pipeline; schema design and synthesis through the orchestrator | writes statuses past `_set_phase_status` | keeps the progression well formed |
| Job status side effects (`src/src/shared/job_status.py`, `src/scripts/_job_status.py`) | `_status.json`, `decisions/assignment_review.json`, one field of `.meta` | write and clear a failure marker, record the review gate | each is a read, a decision and a write; a script per engine runs at once | a marker names a failure that still stands; cancellation wins; no phantom job |
| Phase scripts (`src/scripts/run_*.py`) | artifacts | one phase step of one job, or of one engine | processes of their own, killed at will | clear their own failure, record the next one |
| Local job status and cancel (`src/src/api/services/local_execution.py`, `routes/assessments.py`) | `_status.json` (CANCELLED) | `_infer_status`, `stop_execution`, `DELETE /{job}` | derived from four files that change underneath | a cancelled job stays cancelled (it may not, when a script fails meanwhile); a finished one is not made to look cancelled (a cancel under way may do so) |
| Phase and review routes (`routes/phases.py`, `schema_revisions.py`) | `confirmed.json` | resume, confirm-all | a check of the derived status before minutes of work | nothing is run for a cancelled job |
| Artifact store (`src/src/storage/local_store.py`) | files | read, write (temp file and `os.replace`) | concurrent writers | each read or write is atomic |
| Assignment versions (`src/src/storage/assignment_versioning.py`) | `assignment/v<n>/` | next and effective version, lineage, the reality check's run per lineage | list, then write; walks along `previous_version` | no version is written twice; a lineage is one chain |
| Assignment resolver (`src/src/agents/referee/assignment_handler.py`) | a version | `run_assignment_resolver` | the number is picked before the work | a new version, and a new lineage |
| Assignment review gate (`routes/assignments.py`, `agents/referee/assignment_overrides.py`) | versions | GET, PUT, reroute of split writes | check of the base version, then a reroute, then the edit | an edit applies to what the customer saw; a table's writes go together |
| Reality check (`agents/referee/reality_check_handler.py`) | a version, `reality-check/` (output, records, marker) | run, prepare, finalize | output, record, marker and version are four writes; a preview looks like a run | once per lineage; pins stay; a record belongs to its lineage |
| Post-schema routing (`agents/referee/post_schema_routing_handler.py`, `post_schema_router.py`) | versions, designs, `external_run.json` | local run, external step, rollback | a reroute may cause the next; a redesign may fail; stopped between a version and its designs | bounded; no bouncing; complete means designed; a rollback restates |
| Schema designs and revisions (`routes/schema_revisions.py`, `agents/schema_design/`, `atx_orchestrator/tools.py`) | `schema-<engine>/v<n>/` | design, redispatch after an edit, revise | numbered by two rules; the latest design, the effective assignment | a design serves what its version asks for (those a customer revised excepted); a revision leaves out only what it was told to |
| Graph handles (`src/src/graph/__init__.py`) | open read-only handles, their leases and pins | `reader`, `exclusive`, eviction | two levels of locks, waits on conditions, entries that outlive their place in the map | one handle per file; nothing closed under a lease; sole access is sole; nobody waits for ever |
| Context graph (`src/src/graph/job_graph.py`, `persistence.py`, `populators.py`, `api/routes/graph.py`) | `graph/context.lbug`, `graph/cli/context.lbug` with its lock file; version and digest kept for 2 s; a back-off; refresh locks | read, forced rebuild, refresh, prepare, adopt, build, upload, download; `graph_query.py`, `run_report.py` | artifacts rewritten during a build; threads and processes on the same files; the upload writes the served file in place | a stamp says what was read; no part of a graph replaces a whole one; what was learnt is served |
| Job deletion (`local_execution.py`) | trash directory | `delete_job_artifacts` | scripts still writing | a deleted job does not come back |
| AWS Transform orchestrator (`src/src/atx_orchestrator/`) | job plan, human tasks | tools of a hosted agent | waits for people | every wait ends |
| Scoring, agents, report, UI | none beyond artifacts | transformations | - | out of scope here: data, not control |

**How they interact.** There are no messages: only files, and the API's cache of
graph handles. The API is one event loop whose route handlers are `async def`
without an `await`, so two API calls of one process never overlap, while every
script is a process of its own and overlaps with everything. The graph's routes
are plain `def`s, which run in threads of a pool. The browser polls `GET` routes,
and what it shows is `_infer_status`: a cancellation first, then a synthesis
report, a script's failure, the progression's FAILED or AWAITING_REVIEW, the
approval gate, else RUNNING. Assignment versions and designs are read at the
*effective* version, the highest number there is, by whoever comes next.

The hazards this gives rise to are listed, with the line where each bites, under
`hazards` in `PROJECT.json`.

## 2. Plan

1. `Phases`, `JobStore`, `PhaseOrchestrator` with the abstract `PhaseLifecycle`:
   done; types, order, backing and the refinement are theorems.
2. `PhaseScripts` and `JobLifecycle`: done; every safety property the runs check
   is a theorem.
3. `AssignmentStore`, `CustomerGate`, `RealityCheck`, composed in
   `AssignmentFlow`: done; likewise.
4. `SchemaDesigns` and `PostSchemaRouting`, composed in `SchemaFlow`: done;
   likewise, and TLC checks that a routing returns.
5. `GraphCache` with the abstract `GraphFileAccess`: done; likewise, the
   refinement among them. `ContextGraph`, over the same abstract specification:
   done; likewise, and TLC checks that requests end.
6. Considered and left: job deletion and the hosted orchestrator (section 7).

## 3. The modules

| Module | Models | Extends |
|---|---|---|
| `Phases` | the phase contract, as constant-level operators | - |
| `JobStore` | the files that decide a job's status, what may be read off them | `Phases` |
| `PhaseLifecycle` | what the orchestrators promise of the phases' statuses (abstract) | `Phases` |
| `PhaseOrchestrator` | `LocalOrchestrator` and `run_assessment.py`'s use of it, per process | `JobStore` |
| `MCPhaseOrchestrator` | the refinement mapping to `PhaseLifecycle` | `PhaseOrchestrator` |
| `PhaseScripts` | the `run_*.py` processes | `JobStore` |
| `JobLifecycle` | orchestrator, scripts and cancel on the same files | the two above |
| `AssignmentStore` | the versions, how they are numbered and walked, what an edit makes of one | - |
| `CustomerGate` | GET and PUT of the assignments, the start of a schema design | `AssignmentStore` |
| `RealityCheck` | the reality check in its modes, its record and its marker | `AssignmentStore` |
| `AssignmentFlow` | resolver, gate and reality check on one job | the two above |
| `MCAssignmentFlow` | its symmetry, for TLC | `AssignmentFlow` |
| `SchemaDesigns` | the designs, the designers, the redispatch, the revisions | `AssignmentStore` |
| `PostSchemaRouting` | the routing, local and external | `SchemaDesigns` |
| `SchemaFlow` | routing, designers, edits and revisions on one job | `PostSchemaRouting` |
| `MCSchemaFlow` | the placements it starts from, up to the engines' names, for TLC | `SchemaFlow` |
| `GraphFileAccess` | what the cache promises of the file of each job (abstract) | - |
| `GraphCache` | the cache of graph handles, its locks, pins and evictions, and the refinement mapping | - |
| `ContextGraph` | the graph of a job between the API's threads, the command line and the artifacts | uses `GraphFileAccess` |
| `MCContextGraph` | its symmetry, for TLC, and a start some steps into it | `ContextGraph` |
| `PhaseOrchestratorProofs`, `PhaseScriptsProofs`, `JobLifecycleProofs`; `AssignmentStoreProofs`, `AssignmentFlowProofs`, `SchemaFlowProofs`; `GraphCacheProofs`, `ContextGraphProofs` | theorems | their component |

### Job status

**Files.** `meta` is `.meta/<job>.json` (or `NoMeta`), `marker` is
`_status.json`, `review` says whether a valid `decisions/assignment_review.json`
exists, `arts` is the set of artifacts that exist. One read or one write of one
file is one step; a function that reads, decides and writes is two. Of a phase
record the model keeps the status, the skip reason and whether an error message
is there.

**Calls.** In `PhaseOrchestrator` a process is a frame: `pc`, the operation, the
phase in hand (`cur`), the phase asked for (`target`), the script phases whose
markers are still to be cleared, and the progression it holds in memory.

| Code | Actions |
|---|---|
| `POST /{job}/resume`, `resume_lenient` | `ResumePhase`, then `Descend` (one load per recursion frame on the way down), `Reload`, `ClearRead`/`ClearWrite`, `Begin`, a run, `FinishPrerequisite` (one level up) |
| `resume` | `Validate`, `ClearRead`/`ClearWrite`, `Load`, `Begin`, a run, `FinishResume` or `Fail` |
| `_run_phase` | `RunReturns`, `RunRaises` (with any part of the output written), `RunExits` (the collector's `sys.exit`) |
| `start_job` | `StartJob`, `Begin`, a run, `FinishStart` (twice) or `Fail` |
| `POST .../confirm-all`, `confirm_schema_design` | `ConfirmAll`, `ConfirmLoad`, `ConfirmSave` |
| `run_assessment.py --all` from schema design on | `AssessSchemaDesign`, `GetProgression`, `AdoptAssessed`, the steps of `resume`, `RoutingRaises` or `AssessSynthesis`; an exception goes through `MarkRead`/`MarkWrite` |
| the process is killed | `Crash` |

Since no phase has two prerequisites, the waiting frames of the recursion are
exactly the phases between `cur` and `target`, so one frame stands for the stack
(`Above` is the caller's phase).

In `PhaseScripts` an invocation is `StartScript`, `Resolve` (which may raise
before the job is known: no marker), `ScriptClearRead`/`Write`,
`ReviewRead`/`Write`, then `WorkSucceeds`, or `WorkFails` and
`MarkFailureRead`/`Write`; `Kill` may strike anywhere. The same phase step of
the same engine is not run twice at once, which is how the skills drive the
scripts. Two history variables are only read by properties: `unlocked` (phases
some progression on disk ever let start) and `last` (how the last attempt at
each phase step went).

`JobLifecycle` adds `CancelRead` and `CancelWrite` (a `DELETE` that derives the
status and then writes) and the constant `Overlap`, which lets the processes
interleave or makes each wait for the others.

### Assignment versions

**Files.** `asg` maps the numbers that exist to assignments: who wrote it
(`source`), the version it was made from (`prev`), the engine of each query and
the queries the customer pinned. `rcOut`, `rcRec` and `rcMark` are the reality
check's `output.json`, its records per version and the status in
`awaiting_llm.json`. A file is written whole, in one step.

| Code | Actions |
|---|---|
| `run_assignment_resolver` | `StartResolver` (picks the number), `WriteResolution` |
| `get_assignments`, the start of a schema design | `GetAssignments`, `StartDesign`, then `Reroute` (the `exists`) and `Rewrite` (the write) when a table's writes are split |
| `put_assignments` | `PutAssignments` (the check of `base_version`), `Reroute`/`Rewrite`, `Edit` (reads the effective version), `WriteEdit` |
| `run_reality_check_handler` with a model or without, `finalize_reality_check` | `RunCheck`, `Keep` (the number, the completed run kept), `Output`, `RecordRun`, `Settle` (the marker), `Revise` (the version) |
| `run_reality_check_handler` in external mode | `PrepareCheck`, `Request`, `MarkAwaiting`, `Keep`, `Output` (a preview) |
| a refusal, an exception, a kill | `GateStops`, `CheckStops`, `ResolverStops`, from any step |

Which queries the reality check moves is any choice of units it may move: whole
placement units with no pinned query. A customer's PUT picks any engine for any
query; "decide for me" does the same for a unit nobody pinned, and pins nothing.
`checks` and `chosen` are history: how each run was asked for and ended, and the
engine the customer last picked for each query.

### Designs and routing

`designs` maps an engine and a number to a design: the queries it serves, whether
it passes today's output contract, and whether it descends from a customer's
revision (`initiated_by` in the `version_meta.json` that is copied along). What a design flags is decided when it
is read. `router` holds what each routing process has in memory, `ext` is
`external_run.json`.

| Code | Actions |
|---|---|
| `PostSchemaRouting.run` | `StartRouting`, `Pass`, `WriteReroute`, `Carry`, `Redesign` per engine, the next `Pass`; on a failure `RedesignFails`, `RollBack`, `Restate`, and the run raises |
| `run_external_step` | `ExternalStep`, `Pass`, `WriteReroute`, `Carry`, `Save`; the caller's designers in between; a contract failure goes through `RollBack`, `Restate`, `Save` |
| `roll_back_external` | `RollBackExternal`, `RollBack`, `Restate`, `Save` |
| `run_schema_design_auto` and the schema-design phase | `DesignEngine` |
| `redispatch_after_reroute` | `Redispatch` |
| `put_schema_revision`, `execute_revision` | `Revise` |
| a kill | `RouterStops`, between any two writes |

`Pass` is `_post_schema_routing_pass` and the router: any set of flags the rules
let count (not on a query moved before, not on a pinned one), the flagged query
with the other writes of its table, each unit to an engine still kept. `Revise` is
one step because the handler runs without yielding; the revised design may go on
failing the contract where the saved one did, or be mended, and one that has no
pattern left may fail it. A design and its review are
one step, and the fit of a design changes only with a release, so `Init` holds
designs of an earlier one.

### The context graph

**The cache.** `entryOf` and `used` are the ordered map of entries, each with its
last use, which the cache-wide lock guards; an eviction takes the entries used
least recently (`OlderIn`, `Kept`); `entry` holds the entry objects with the handle (`open`),
the readers, the exclusive flag, the pins, and the thread that holds the condition
while it prepares the file. What is done under a lock is a step; a `wait` on a
condition is a guard. An entry is an object with an identity: a thread that pinned
one goes on with it whatever the map says meanwhile. Readers and pins are sets of
threads where the code counts.

| Code | Actions |
|---|---|
| `_pin` | `Reader`, `Exclusive` (`PinExisting` or `PinNew`) |
| `reader` | `Lease`, or `Prepare` and then `OpenPrepared` or `PrepareRaises`; `EndLease`; `Unpin` |
| `exclusive` | `Claim` (the flag), `Drained` (no readers; the handle is closed), `EndExclusive`; `Unpin` |
| `_unpin`, `_evict_idle_locked` | `Unpin` |

`ContextGraph` has the cache as `GraphFileAccess` (`Access!Lease`,
`Access!Seize`...), which `GraphCache` implements; `Evict` is the eviction that
other jobs cause.

**The graph.** A file at a path is absent, torn (cut by `open(..., "wb")` and not
yet written), an unstamped graph of which a part could not be read, or a graph
with its stamp: the assignment version and the digest of its inputs. A graph also
carries the states of the artifacts that its build met (`read`), which no code
sees. The artifacts are two numbers that grow, one for the effective version and
one for the content. With the local store, the key a graph is uploaded under *is*
the file the API serves, so `Upload` and `CheckLocal` write it in place, in two
steps (`Torn` first), while a build and an adoption move a new file over it; a
handle that the command line has open stays with the file it opened (`MoveOver`,
`WriteInPlace`, `Seen`).

| Code | Actions |
|---|---|
| `graph_lease`, `_refresh_if_behind`, `_open_graph_is_current` | `BeginRead`, `Ask` and `KeepAnswer` (version, digest: kept, read, or unreadable), `Lease`, `Compare`, `TakeRefreshLock`, `Lease`, `Compare` again, `Seize`, `CheckLocal`, `Adopt`, `Drop` or a build, `Done`, `Lease`, `EndRead` |
| `_prepare_graph_file`, `prepare_graph_file` | from `Lease` without a handle: `Ask`, `CheckLocal`, `Downloaded`, `Adopt`, `Drop` or a build, `Done` |
| `POST .../graph/rebuild` | `BeginRebuild`, `Seize`, a build, `Done` |
| `rebuild_graph`, `build_graph_file` | `DigestInputs`, `Gather`, `Finish` or `BuildRaises`, `Place` (or `PlaceCopy`), `Upload`, `Uploaded` |
| `open_job_graph`, `prebuild` (`graph_query.py`, `run_report.py`) | `RunCli`, `Freshness`, `CheckApi`, `OpenApi`, `ReadApi`; or `Share`, `Exclude`, a build, `PlaceCopy`, `Reshare`, `ReadCopy` |
| artifacts written, caches and back-off expired, other jobs, the API stopped and started | `WriteArtifacts`, `Expire`, `Evict`, `Restart` |

The reads of a build are two steps, so that the artifacts may change before,
between and after them: `DigestInputs`, and `Gather` with the first read; what is
read after the versions are listed (`populators.py:1639` to 1777) is one step with
that listing, `Finish`. The digest is a number that grows, where
`inputs_digest.py:38` hashes the content: artifacts that go back, under a build,
to what they were when the digest was taken are not represented. `Adopt` is one
step although the code leaves the lock before its `os.replace`: what it moves by
then is a file of its own, which nobody else knows of.

## 4. The runs

All runs set `CHECK_DEADLOCK FALSE`: the bounds on calls, versions and
invocations end every behaviour.

| Run | Shows |
|---|---|
| `orch_lifecycle` | Three calls of any kind and any phase, one after the other, with crashes, exceptions and exits, implement `PhaseLifecycle` (`LifecycleSpec`): phases begin in order, end from `in_progress`, and a schema design is completed out of its review. One process plays all three roles, so calls do not overlap but start from whatever a crash left. |
| `orch_overlap` | A resume and a `run_assessment.py` run interleave at every access. Order and backing survive lost updates, types hold, and both calls return (`CallReturns`, under fairness). `llm_mode` is `none`, so that the skipped schema design and the synthesis that accepts it happen, and the engines are ones whose analysis `_infer_progression` does not look for. |
| `scripts_parallel` | Two scripts at a time, two engines, six kinds, kills. A FAILED marker names an attempt that failed and was not redone (`FailedMarkerIsCurrent`); whoever works past the review gate finds it recorded (`GateRecordedAtWork`). |
| `job_sequential` | API, `run_assessment.py`, scripts and cancel in turn: a resume clears its scripts' failures (`ResumeClearsMarker`), and CANCELLED is final (`CancelledIsFinal`). |
| `job_overlap` | An API resume, two scripts (collect among them) and a cancel with every interleaving: no API process is at work in a cancelled job (`CancelledStopsApi`), and a script started for a job that does not exist leaves nothing behind (`NoPhantomJob`), and COMPLETED stays backed (`CompletedIsBacked`) when a script's merge of the review and the orchestrator's save undo each other. |
| `job_cancel_lost` | *Violation.* A cancel between a script's check and its write is overwritten by FAILED. |
| `assignment_sequential` | The resolver, two reality checks in any mode and one customer write one job's versions, each call stopped at any write. The walk of a lineage is well founded (`LineageWellFormed`); it is consolidated once (`ConsolidatedOnce`); what the customer picked stands in every later version of the lineage (`CustomerChoiceStands`); a deliverable shows the record of the run its version descends from (`RecordIsOwnUnlessBroken`); a preview is never taken for a run (`PreviewIsNoRun`); an edit meets what its base version showed (`EditsWhatWasSeen`); no version is overwritten (`VersionsAppendOnly`). |
| `schema_flow` | A routing, local or a step at a time, with failing redesigns, rollbacks and stops, between designers, one edit and one revision, in any order. A design that no customer revised serves what its version places (`DesignMatchesAssignment`), a complete routing is designed (`CompleteIsDesigned`), nothing moves twice (`MovedOnce`), the cascade is bounded and returns (`CascadeBounded`, `RoutingReturns`), a rollback restates (`RollbackRestates`), a table's writes stay together (`WritesTogether`). |
| `routing_rollback` | *Violation.* The rollback overwrites an edit made while the redesign ran. |
| `graph_cache` | Three threads, two jobs, a cache of one entry, four requests. A leased handle stands (`LeasedHandleStands`), a file has one handle (`OneHandlePerFile`), what exceeds `max_size` is in use (`CacheBounded`), every request returns (`RequestReturns`), and the cache implements `GraphFileAccess` (`PromiseSpec`), so that access is sole. |
| `graph_restart` | Two threads and a run of the command line, the API stopped anywhere once, one failing read, evictions. No request is served a torn file (`NeverServesTorn`), a whole graph is never replaced by part of one (`WholeGraphKept`), and every request and run ends (`GraphRequestReturns`, under fairness). |
| `graph_shared` | Two requests of two threads, any of them a forced rebuild, and two runs of the command line, while the artifacts change. What passes for current was read from the present artifacts (`CurrentMeansFresh`), a run reads what it learnt of or newer (`CliServesWhatItSaw`), and a request is not served less than it has learnt of as long as there is no copy of the command line to adopt (`ServesWhatItSaw`). |

Each passing property has a mutant of a mapped definition under which TLC finds
it violated; the mutants stand next to what they change, with a comment that
says what is broken.

**What the bounds on kinds leave out.** `scripts_parallel` runs without
`collect` because a schema design started before the job exists skips the gate,
and would still be at work when a collect creates the job; without `pe_review`
and `post_schema` because those never supersede their marker, so that
`FailedMarkerIsCurrent` says nothing of them. `job_sequential` leaves `collect`
out: before any output exists, a resume does not clear the marker of a failed
collect (`local_orchestrator.py:546`), and `ResumeClearsMarker` fails.

**Weaker than one might expect.**
- `RunsOnlyUnlocked` says that some progression on disk showed the prerequisites
  met, not that the present one does: with overlapping calls another process may
  write an older progression back while a phase runs.
- `CompletedIsBacked` asks for the collector's output alone of a completed
  collect-and-triage, because `_infer_progression` completes that phase when
  either output exists; it asks nothing of analysis and schema design, which
  complete without output when triage selected no engine.
- The refinement of `PhaseLifecycle` is claimed for calls that do not overlap.
- So are the properties of assignments and designs (`Overlap = FALSE`): a number
  is chosen by listing, and two writers who list at once choose the same one.
  The code guards against that in places (the `exists` before a reroute, the
  comparison of `base_version`) and not in others. Calls that do not overlap are
  still stopped between any two writes.
- `RecordIsOwnUnlessBroken` and `CompleteIsDesigned` except what a call that broke
  off left behind: for the first, a run that stops between its record and its
  version, or that leaves its output without a record under a marker that still
  calls it a preview (`Hidden`). Without the exception it is `RecordIsOwn`, below.

**What the violations say.** Each is a finding in `PROJECT.json` with the line of
the code and the line of the documentation or test it disagrees with. Eight
properties that the modules state and the code does not keep have no run here;
each is one INVARIANT or PROPERTY in a configuration of its module, with the
constants of the run named:

| Property | Constants | What TLC shows |
|---|---|---|
| `FailureRecorded` (`PhaseOrchestrator`) | `orch_overlap` with `CliProcs = {}`, `Targets = {"analysis"}`, `MaxCalls = 1`, `Spec` | A prerequisite that raises in `resume_lenient` stays `in_progress` with no error message: `_auto_complete_prerequisites` has nothing around `_run_phase` (`local_orchestrator.py:569`). `tests/property/test_error_handling_properties.py:136` says "When a phase raises an exception, the orchestrator sets FAILED status with the error message preserved." |
| `RecordIsOwn` (`AssignmentFlow`) | `assignment_sequential` with two queries, `MaxVersion = 3`, `MaxChecks = 1` | A reality check that breaks off between its record and its version leaves the record (`reality_check_handler.py:608`) for whoever takes that number; `assignment_versioning.py:446` says "A deliverable shows the record of the run the assignment descends from (#193), and none from another lineage (#215)". |
| `NoFabricatedCancel` (`JobLifecycle`) | `job_overlap` | A script fails the job between the status that a cancel derives and the marker it writes (`assessments.py:438`, `:445`): the failed job shows as CANCELLED. The handler's docstring (`assessments.py:429`) says "A job already in a terminal status (SUCCEEDED, CANCELLED or FAILED) can't be cancelled". |
| `DesignNamesItsVersion` (`MCSchemaFlow`) | `schema_flow` | A revision is written at `v<latest + 1>` of its engine (`revision_handler.py:547`) and is taken for the design of the assignment version that gets this number next; `assignment_versioning.py:525` says "N is the assignment version it was built from". |
| `RevisionsStay` (`MCSchemaFlow`) | `schema_flow` | An engine is designed and revised; the customer's edit leaves its queries where they are, and its version gets the revision's number, to which the redispatch then copies the older design (`tools.py:2819`). `docs/architecture/decisions/ADR-019-query-journey-materialization.md:84` says "Historical versions remain accessible". |
| `CopyIsThere` (`ContextGraph`) | `graph_shared` with one process of each kind | Between the exclusive lock and the shared one the API adopts and removes the copy a run has just built, and the run opens a path without a file (`job_graph.py:500`); `job_graph.py:468` says "every step rechecks freshness after it gets its lock". |
| `HandleKeepsFile` (`ContextGraph`) | the same | The upload writes the file just put in place, in place (`persistence.py:56`), and cuts what a run has opened there; `docs/guides/context-graph-query-cookbook.md:79` says "an open handle keeps the file it opened". |
| `NewVersionShowsUp` (`MCContextGraph`, from `PrebuiltSpec`) | `graph_shared` with `CliProcs = {p1}`, `MaxInputs = 3`, `MaxRequests = 3` | A request that learnt of an older version waits for the refresh lock, adopts the command line's older copy over the graph that another request has rebuilt, and the latter is served it (`routes/graph.py:424`); line 102 there says "A new version shows up on the first read after the entry expires". |

Beyond these, met while modelling:
- Scripts. `run_post_schema_routing.py` and `run_pe_review.py` record failures
  and never supersede them. One engine's `clear_failure_marker` supersedes a
  sibling's failure recorded between its read and its write (`job_status.py:264`).
- `.meta`. The merge that records the gate writes the whole document back as it
  was when read (`job_status.py:338`), and a resume that loaded it before the
  gate was recorded undoes the record. The collector's `sys.exit` leaves collect
  and triage `in_progress`, since only `Exception` is caught. An error message
  outlives the attempt it describes. An `analysis` in AWAITING_REVIEW is
  confirmed by nothing, so a later phase reruns it.
- Versions. `run_schema_design.py:131` says of the reroute's version that
  `reroute_split_writes` "creates it exclusively"; `assignment_overrides.py:1881`
  tests for the file and then writes it (`Reroute`, `Rewrite`), so that two runs
  may both write.
- Revisions. A revision is written at `v<latest + 1>` of its engine, while
  synthesis, load test and the deliverables read designs at the effective
  assignment version: it does not show there unless the numbers coincide.
  `_required_query_ids` subtracts only the removals of the revision at hand, so a
  structural revision after one that removed a query is refused.
- Graph. A build that raises (the versions cannot be listed) starts no back-off,
  since only `on_built` does. A version learnt before a wait is kept for two
  seconds from when it was asked for, so a request may be served a graph older
  than the artifacts; the property is about what the request learnt.
- Routing. The next pass of a local run goes on from its own version when a
  customer edited meanwhile. A routing stopped between its version and
  `external_run.json` starts afresh on engines not yet designed.

**Bounds.** `MaxCalls` and `MaxRuns` bound the calls and the script invocations
(1 to 3). Two calls are enough for every pairwise race on `.meta`, and three in
a row for fail, retry, confirm; a resume on its own walks through up to seven
phases. Two processes or scripts, two engines (one where the fan-out plays no
part), every phase as a target in `orch_lifecycle` and in the others those whose
prerequisites the race needs. The initial `arts` are the prefixes of the
pipeline, since a job may have been brought to any of those points by scripts
the orchestrator never saw. `assignment_sequential` has three queries, two of
them writes of one table, two engines, four versions (resolution, reroute,
consolidation, edit, in the orders the code allows), two checks and one edit: a
check before and one after the customer, in any mode. `MaxVersion = 4` in
`schema_flow` lets a rollback (two versions) follow an edit or a first reroute;
a local run starts only where its three passes fit. In `graph_cache` a third
entry object is needed while an evicted one is still in somebody's hands, and the
third thread lets a reader and two claims meet. The graph's two runs
share the bounds between them: `graph_shared` has two threads, two runs of the
command line and one change under a build (`MaxInputs = 2`), with a store that
answers; `graph_restart` has one failing read anywhere, a stop anywhere and
evictions, with artifacts that stay. `MCSchemaFlow` starts from the placements up to the engines' names, since a
symmetry would not be sound beside a liveness property. The largest runs have one
to two million states and take one to three minutes. Engines and the writes of the
table are symmetric in `MCAssignmentFlow`, threads and runs in `MCContextGraph`,
neither of which checks liveness; no other run declares a symmetry. The type
invariants that no run lists (`ScriptTypeOK`, `SchemaTypeOK`, `GraphTypeOK`,
`CacheTypeOK`) are proved.

## 5. Fairness

- `CallReturns`: weak fairness of `Advance(self)`, that is, a process in the
  middle of a call goes on. The code runs a call in one thread without waiting
  for another, and each handler ends by returning or raising; model calls have a
  timeout of their own. Crashes are off in that run.
- `RoutingReturns`: weak fairness of `RouterStep(self)`, for the same reason: a
  routing is one sequential program whose redesigns return or raise. That a
  stopped process satisfies the property is no hole in it: a stop is a choice in
  every state, and fairness obliges nobody to take it.
- `RequestReturns`: weak fairness of `GoOn(t)` per thread. What a thread does with
  a file ends: reads carry the engine's query timeout, a preparation returns or
  raises. Weak fairness is enough although threads wait for each other, because
  the bound on requests makes every wait end for good; with an endless stream of
  readers Python's conditions promise no order, and neither does this.
- `GraphRequestReturns`: weak fairness of each thread's and each run's own steps,
  with locks that are free in the end for the same reason.

No fairness is assumed of callers, scripts, designers, the customer, expiry or
eviction.

## 6. Proofs

Proved with TLAPS, for every value of the constants, from the named assumptions
of the modules (sentinels differ from what they stand in for, bounds are
numbers, flags are Booleans) and what is said below. Every safety property that a
passing run checks is stated by one of these theorems.

Two hypotheses recur, and mean what they mean in the runs. `~Overlap`: a call
starts when no other is under way; it may have been stopped half way, at any
write. `OneRouter`: at most one routing, called again as often as one likes. The
two expected violations, and the findings of section 4, show what overlap
breaks.

**`PhaseOrchestrator`**, for every set of processes, every set of targets, either
LLM mode, any number of calls, with or without crashes and exits:

- `Typing` (`TypeOK`). The inductive invariant is `Typed`: besides the
  types, what every frame satisfies at each `pc` (`FrameOK`: a phase in hand that
  is not the target is below it in the pipeline, `ClearWrite` has something to
  clear, an `assess` or `strict` frame is for schema design or synthesis).
  `TypeOK` says more than types: a skip reason belongs to a skipped schema design
  alone, in `.meta` and in every copy in memory. `Rank` and `AboveIsNext` justify
  that one frame stands for the recursion.
- `PhasesInOrder` (`RunsOnlyUnlocked`). A write of an old progression
  may take back what another process did, so "the prerequisites are met on disk"
  is not invariant. `Order` says: what `.meta` lets start is unlocked, and a
  frame between its check and the end of its run has its phase unlocked.
  `unlocked` only grows, and every write unlocks what it lets start.
- `CompletedHasOutput` (`CompletedIsBacked`). A status is written long
  after it is decided, from a copy in memory; so `BackedInv` says of each frame
  what it holds in memory and, when it is about to write COMPLETED, that the
  output exists. It rests on artifacts never being taken away, and on triage's
  output coming after the collector's.
- `PhasesKeepLifecycle` (`Spec => LifecycleSpec`), assuming `OneProcess`: one
  process plays every role, as in `orch_lifecycle`, so that calls follow one
  another. `InStep` says at each `pc` how the copy in memory compares with
  `.meta`: what was checked is still so, and what is about to be written differs
  from the file by the phase in hand alone. Then every step is one of
  `PhaseLifecycle` or a stutter.

**`PhaseScripts`**, for any number of scripts, engines and invocations, killed
anywhere:

- `ScriptTyping` (`ScriptTypeOK`), from `ScriptsTyped`: types, and at each `pc`
  what the frame has in hand (`ScriptFrameOK`).
- `NothingOfAPhantom` (`NoPhantomJob`), for any set of kinds: `PhantomInv` adds that
  a script between its check and its write checked a job that is there still
  (`ChecksHold`).
- `MarkerCurrent` (`FailedMarkerIsCurrent`), for kinds that supersede their own
  marker, the hypothesis its statement makes. `CurrentInv` adds that a FAILED
  marker names an attempt, that no phase step of an engine is at work twice, and
  what `last` says of an attempt at each `pc`.
- `GateRecorded` (`GateRecordedAtWork`), for kinds other than `collect`; it is
  inductive as it stands, over the types.

**`JobLifecycle`**, for the same processes on the same files. `JobTyped` joins the
two invariants of types above, and the lemmas `OrchestratorFacts` and `ScriptFacts`
say once what each kind of actor leaves alone.

- Whatever overlaps: `JobTypes`; `JobOfAPhantom` (`NoPhantomJob`),
  `JobPhasesInOrder` (`RunsOnlyUnlocked`) and `JobCompletedHasOutput`
  (`CompletedIsBacked`), whose invariants carry over once they also cover the
  others' writes: a script writes `.meta` back as it saw it, so what it saw must be
  backed too (`SeenBacked`); `CancelStopsApi` (`CancelledStopsApi`), from `Stopped`: from the
  moment a cancel has read the status, no call of the API is under way.
- Assuming `~Overlap`: `CancelIsFinal` (`CancelledIsFinal`); the run
  `job_cancel_lost` shows it fail without.
- `ResumeClears` (`ResumeClearsMarker`), assuming `~Overlap` and that no `collect`
  is run as a script, for the reason of section 4. `Marked` says whose failures a
  marker can name, `Cleared` that a failure of the phase in hand is still to be
  cleared, or gone.

**`AssignmentFlow`**, for any queries, engines, processes and bounds:

- `Typing` (`FlowTypeOK`) and `Lineages` (`LineageWellFormed`), **whatever
  overlaps**: two writers may take the same number, yet numbers have no gap and
  each version names an earlier one, so every walk ends. `FlowInv` says of each
  frame that the version it will write follows one that exists (`GateOK`,
  `CheckOK`, `ResolverOK`) and of each file that it is well formed (`StoreOK`).
- `AppendOnly` (`VersionsAppendOnly`), `PreviewNeverCounts` (`PreviewIsNoRun`) and
  `EditsTheSeenVersion` (`EditsWhatWasSeen`), assuming `~Overlap`. `SequentialInv`
  says that one call is at work (`OneCall`), that what it read is still so
  (`GateCurrent`, `CheckCurrent`, `ResolverCurrent`), and that a preview is
  hidden by the marker (`PreviewHidden`).

The other three assume `~Overlap` as well.

- `PicksStandBeforeDesign` (`CustomerChoiceStands`). `ChoiceInv` adds what a draft
  carries of the picks it was made from: a re-route drops none but those it
  overrides, and a check nobody forced works on the version in force, so that its
  consolidation keeps them all.
- `LineagesConsolidatedOnce` (`ConsolidatedOnce`). The property speaks of
  everything a version descends from, the code of what its walk along
  `previous_version` meets before a consolidation or a resolution ends it. Both
  are recursive functions, for which the prover has no induction; `WalkRuns`,
  `LineageUnfolds` and `AncestryUnfolds` show by least counterexample that they
  exist and how each unfolds by one version, `WalksStay` that they do not change
  when versions are added, and `LineagesDescend` that the walk stops at the
  nearest consolidation of its ancestry, if there is one. `RunsInv` ties a process
  to its run in the history, `OnceInv` adds that the run about to consolidate is
  for a lineage that is not consolidated: a stopped run leaves no version, so
  nothing else could have been.
- `DeliverablesShowTheirRun` (`RecordIsOwnUnlessBroken`). `RecordInv`, as long as no
  run is broken: a consolidation has the record of a run that wrote it; another
  version has none, or that of a run that found nothing to change in it; such a
  run is recorded, or is the output itself; and an output that is hidden by the
  marker, or about to be replaced, is recorded. The last part is what
  `keep_completed_reality_check_output` is for. The first attempt at this proof
  failed at a finalize that is stopped after its output, the marker still
  standing: the next preparation does not keep that run, and its record is lost.
  The exception for broken runs now includes it.

**`SchemaFlow`**, for any queries, any finite number of engines, any bounds:

- Whatever overlaps: `SchemaTypes` (`SchemaTypeOK`) and `SchemaLineages`
  (`LineageWellFormed`), from `Typed` (`StoreTyped`, `DesignsTyped`,
  `RoutersTyped`).
- Assuming `~Overlap` and `OneRouter`: `RoutingKeepsPicks` (`CustomerChoiceStands`),
  `DesignsMatch` (`DesignMatchesAssignment`), `CompleteMeansDesigned`
  (`CompleteIsDesigned`), `QueriesMoveOnce` (`MovedOnce`), `CascadesEnd`
  (`CascadeBounded`), `RollbacksRestate` (`RollbackRestates`) and `TablesStayTogether`
  (`WritesTogether`), all from one invariant, with edits and revisions in between.
  `RoutingInv` says of a routing under way (`Underway`) and at rest (`AtRest`), and
  `Saved` of the run in `external_run.json`, what the versions it wrote have moved
  (`Traced`), what its next version may move (`Follows`), which engines still want a
  design (`Covered`) and, once it rolled back, that the assignment is as before
  (`AsBefore`). `DesignInv` says that a design nobody revised is one of a
  version, and serves what that version gives its engine: a design under a number
  that no version has yet, and which is taken for the design of the version that
  gets it, can only be a revision. `ChoiceInv` has the picks and the writes of each table.

**`GraphCache`**, for any jobs, threads, entries, `max_size` and number of requests:

- `CacheInvariant` (`Spec => []Inv`), and from it `CacheTypes` (`CacheTypeOK`),
  `LeasesStand` (`LeasedHandleStands`), `FileToOneself` (`SoleAccess`) and
  `OneHandle` (`OneHandlePerFile`). Flags, readers and conditions exclude threads
  on an *entry*, and the properties are about *files*; what joins the two is
  `Mapped`: an entry that somebody has pinned, or whose handle is open, is the one
  the map gives out for its job. It holds because an eviction takes unpinned
  entries alone and closes them, and `PinsHeld` ties the pins to the threads that
  use an entry. `Leases`, `Exclusives` and `Prepares` say what each place in the
  code entitles a thread to.
- `CacheStaysBounded` (`CacheBounded`), from `Sized`. Pinned entries are no more
  than the threads that pinned them (`PinnedFew`, an injection), and an eviction
  that stops above the bound has left nothing unpinned (`EvictedEnough`).
- `CacheKeepsPromise` (`Spec => PromiseSpec`): under `Inv`, every step of a thread
  maps to a step of `GraphFileAccess` or to a stutter. `OnEntryViews` says once how
  a step on an entry looks from outside; an eviction is a `Close`, since what is
  leased is pinned (`UnpinPromise`); a claim finds nobody on the file
  (`NobodyElse`).

**`ContextGraph`**, for any threads, runs of the command line and bounds. One
invariant, `Inv`, carries every theorem; it says

- who is where with which lock (`Places`, `Exclusion`, `CopyLock`, `RefreshLock`);
- what the files hold at each step, a torn one only between the two steps of a
  write by a thread that owns it and has the whole graph in hand (`Whole`);
- that a stamp is not from the future and not newer than what the build read
  (`Dated`), nor is what a thread has learnt (`Learnt`);
- while the store answers, that every graph is stamped (`StampsAll`), that a
  copy is not older than what a run that comes to read it saw (`CopyServes`), and
  the same of the API's file where no copy can be adopted (`NoCopy`,
  `ApiServes`).

From it: `GraphTypes` (`GraphTypeOK`), `TornNeverServed` (`NeverServesTorn`),
`CurrentIsFresh` (`CurrentMeansFresh`), `RequestsServed` (`ServesWhatItSaw`),
`RunsServed` (`CliServesWhatItSaw`); and, from what each step does to the file
(`Held`), the action property `GraphKept` (`WholeGraphKept`).

Each proof of a step has one case per action, and the facts shared between cases
are lemmas. Only model-checked are the liveness properties `CallReturns`,
`RoutingReturns`, `RequestReturns` and `GraphRequestReturns`, which are outside
the prover's reach: they need fairness and ENABLED.

## 7. Not modelled

- The work of a phase: scoring, placement, prompts, reports, validation. A phase
  returns, raises or exits, and leaves artifacts or part of them. This is the
  larger part of the repository (agents, their tools and contracts, the report
  and its facts, the hosted front end, CI): it transforms one job's data in one
  thread, and what it decides appears here as a choice. The modules cover the
  code that decides *when* that work happens and which files it may rely on.
- Timestamps, `current_phase`, iteration counts and execution ids, which decide
  nothing; AWAITING_INPUT, which no local code writes; the engine scope and
  `confirmed.json` of the routes, which nothing reads.
- The waits for an external model's answer (`--llm-mode external`: split, merge,
  finalize), in the scripts and in `_infer_status`, where they only turn RUNNING
  into WAITING. The reality check's and the routing's external modes, which do
  keep state, are modelled.
- `describe_execution` reads several files; the model derives the status in one
  step. The races it has with a writer are found with the write that follows it.
- `run_assessment.py` before schema design, its run ceilings and its own state
  file; the S3 store; the CDC pipeline; the user interface.
- Of assignments: narrowing the scope (every query is in scope), more than one
  table whose writes go together, the cache overlay, the approval stamp (only AWS
  Transform sets it), and the fallbacks for artifacts older than the record and
  the marker.
- Of the routing: count limits, routines that follow their caller, caches and the
  loser of the two Auroras, all of which only narrow which moves are chosen. In
  `SchemaFlow` the customer's edit is one step (its own races are
  `AssignmentFlow`'s), a design and its review are one step, and a routing is
  started on engines that are designed, as the skills and the phase do, except
  for a retry after a stop.
- Of the graph: what is in it, the queries on it, their slots and limits; Windows,
  where the command line never reads the API's file; `--clean` and `remove_cli_dir`;
  `close_all`, which closes handles without asking for leases and which nothing
  calls, though its docstring says that a shutdown does; the bound of 128 on tracked jobs; the S3
  store, where uploads and downloads do not touch the served file; a run of the
  command line that is killed (its lock goes with it, and its build is in a folder
  of its own); errors of the disk other than those `adopt_cli_copy` catches.
- Job deletion: only a job that is over may be deleted, behind a window of
  wall-clock time, and its docstring lists the races that leaves
  (`local_execution.py:625`); there is no promise to check without the clock.
- The hosted orchestrator's job plan and human tasks, which live in a service
  outside the repository.
