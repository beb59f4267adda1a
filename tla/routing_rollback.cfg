SPECIFICATION Spec
CONSTANTS
    Queries = {q1, q2}
    WriteGroup = {q1}
    Engines = {e1, e2}
    NoEngine = NoEngine
    MaxVersion = 4
    MaxRevisions = 0
    RouterProcs = {router}
    MaxEdits = 1
    Overlap = TRUE
PROPERTY VersionsAppendOnly
CHECK_DEADLOCK FALSE
