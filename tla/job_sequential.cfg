SPECIFICATION JobSpec
CONSTANTS
    Engines = {e1}
    NoEngine = NoEngine
    AnyEngine = AnyEngine
    NoMeta = NoMeta
    LlmMode = "bedrock"
    AnalysisMarked = TRUE
    ApiProcs = {p1}
    CliProcs = {p2}
    LibProcs = {}
    Targets = {"collect_triage", "analysis", "schema_design", "synthesis"}
    MaxCalls = 2
    Crashes = FALSE
    Exits = FALSE
    ScriptProcs = {s1}
    Kinds = {"triage", "analysis", "schema_design", "synthesis", "pe_review", "post_schema"}
    MaxRuns = 2
    Kills = FALSE
    Overlap = FALSE
INVARIANT ResumeClearsMarker
PROPERTY CancelledIsFinal
CHECK_DEADLOCK FALSE
