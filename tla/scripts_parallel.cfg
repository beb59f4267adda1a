SPECIFICATION ScriptSpec
CONSTANTS
    Engines = {e1, e2}
    NoEngine = NoEngine
    AnyEngine = AnyEngine
    NoMeta = NoMeta
    LlmMode = "bedrock"
    AnalysisMarked = TRUE
    ScriptProcs = {s1, s2}
    Kinds = {"triage", "analysis", "assignment", "reality_check", "schema_design", "synthesis"}
    MaxRuns = 3
    Kills = TRUE
INVARIANTS FailedMarkerIsCurrent GateRecordedAtWork
CHECK_DEADLOCK FALSE
