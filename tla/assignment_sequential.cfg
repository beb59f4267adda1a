SPECIFICATION Spec
CONSTANTS
    Queries = {q1, q2, q3}
    WriteGroup = {q1, q2}
    Engines = {e1, e2}
    NoEngine = NoEngine
    MaxVersion = 4
    GateProcs = {api}
    CheckProcs = {check}
    Resolvers = {assign}
    MaxChecks = 2
    MaxEdits = 1
    Overlap = FALSE
INVARIANTS
    FlowTypeOK
    LineageWellFormed
    ConsolidatedOnce
    CustomerChoiceStands
    RecordIsOwnUnlessBroken
    PreviewIsNoRun
    EditsWhatWasSeen
PROPERTY VersionsAppendOnly
SYMMETRY Symmetric
CHECK_DEADLOCK FALSE
