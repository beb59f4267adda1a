SPECIFICATION JobSpec
CONSTANTS
    Engines = {e1}
    NoEngine = NoEngine
    AnyEngine = AnyEngine
    NoMeta = NoMeta
    LlmMode = "bedrock"
    AnalysisMarked = TRUE
    ApiProcs = {p1}
    CliProcs = {}
    LibProcs = {}
    Targets = {"reality_check", "schema_design"}
    MaxCalls = 1
    Crashes = FALSE
    Exits = FALSE
    ScriptProcs = {s1, s2}
    Kinds = {"collect", "triage", "schema_design", "synthesis"}
    MaxRuns = 2
    Kills = FALSE
    Overlap = TRUE
INVARIANTS CancelledStopsApi NoPhantomJob CompletedIsBacked
CHECK_DEADLOCK FALSE
