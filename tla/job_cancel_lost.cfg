SPECIFICATION JobSpec
CONSTANTS
    Engines = {e1}
    NoEngine = NoEngine
    AnyEngine = AnyEngine
    NoMeta = NoMeta
    LlmMode = "bedrock"
    AnalysisMarked = TRUE
    ApiProcs = {p1}
    CliProcs = {}
    LibProcs = {}
    Targets = {"analysis"}
    MaxCalls = 1
    Crashes = FALSE
    Exits = FALSE
    ScriptProcs = {s1}
    Kinds = {"analysis"}
    MaxRuns = 2
    Kills = FALSE
    Overlap = TRUE
PROPERTY CancelledIsFinal
CHECK_DEADLOCK FALSE
