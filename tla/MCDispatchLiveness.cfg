\* Workers that die, leases and approvals that expire, prose at the end of a run.
SPECIFICATION FairDispatchSpec
CONSTANTS
    Sender = planner
    Recipient = cursor
    Broker = awr
    Actors = {planner, cursor}
    PlanIds = {p1}
    PlanShas = {h1}
    Runs = {1}
    Keys = {0, 1}
    Times = {1}
    None = None
    MaxVersion = 30
    MaxNow = 1
    MaxReusedIds = 0
    Workers = {w1, w2}
    Callers = {planner, cursor}
    Endings = {"completed", "malformed"}
    AgentKeys = {0}
    Reporters = {}
    MaxAttempts = 1
    MaxRuns = 1
    MaxCrashes = 1
CHECK_DEADLOCK FALSE
INVARIANT
    CompletionIsReal
PROPERTY
    DispatchIsResolved
