SPECIFICATION FairSpec
CONSTANTS
    Engines = {e1}
    NoEngine = NoEngine
    AnyEngine = AnyEngine
    NoMeta = NoMeta
    LlmMode = "none"
    AnalysisMarked = FALSE
    ApiProcs = {p1}
    CliProcs = {p2}
    LibProcs = {}
    Targets = {"analysis", "reality_check", "schema_design", "synthesis"}
    MaxCalls = 2
    Crashes = FALSE
    Exits = FALSE
INVARIANTS TypeOK RunsOnlyUnlocked CompletedIsBacked
PROPERTY CallReturns
CHECK_DEADLOCK FALSE
