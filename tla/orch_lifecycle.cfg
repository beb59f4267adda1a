SPECIFICATION Spec
CONSTANTS
    Engines = {e1}
    NoEngine = NoEngine
    AnyEngine = AnyEngine
    NoMeta = NoMeta
    LlmMode = "bedrock"
    AnalysisMarked = TRUE
    ApiProcs = {p1}
    CliProcs = {p1}
    LibProcs = {p1}
    Targets = {"collect_triage", "analysis", "assignment", "reality_check",
               "assignment_review", "schema_design", "load_test", "synthesis"}
    MaxCalls = 3
    Crashes = TRUE
    Exits = TRUE
PROPERTY LifecycleSpec
CHECK_DEADLOCK FALSE
