SPECIFICATION BoardSpec

CONSTANTS
    None = None
    u1 = u1
    u2 = u2
    Users = {u1, u2}
    Workflows = {1, 2}
    Stored = {1}
    WorkflowPage <- OneEach
    ExecutionsLimit = 3
    WorkflowLimit = 2
    RecentLimit = 2
    WorkflowsLimit = 1
    MaxExecutions = 3
    MaxFailures = 1

CHECK_DEADLOCK FALSE

INVARIANTS
    ListingsTypeOK
    OneExecutionPerAnswer
    NewestAreShown
    ShortPageIsWhole
    DashboardIsCoherent
