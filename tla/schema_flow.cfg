SPECIFICATION MCSpec
CONSTANTS
    q1 = q1
    e1 = e1
    Queries = {q1, q2, q3}
    WriteGroup = {q1, q2}
    Engines = {e1, e2}
    NoEngine = NoEngine
    MaxVersion = 4
    MaxRevisions = 1
    RouterProcs = {router}
    MaxEdits = 1
    Overlap = FALSE
INVARIANTS
    CustomerChoiceStands
    DesignMatchesAssignment
    CompleteIsDesigned
    MovedOnce
    CascadeBounded
    RollbackRestates
    WritesTogether
PROPERTIES
    RoutingReturns
CHECK_DEADLOCK FALSE
