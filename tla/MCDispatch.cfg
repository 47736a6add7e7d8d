\* Two workers, two callers and a report by hand race on one attempt.
SPECIFICATION DispatchSpec
CONSTANTS
    Sender = planner
    Recipient = cursor
    Broker = awr
    Actors = {planner, cursor}
    PlanIds = {p1}
    PlanShas = {h1}
    Runs = {1, 2}
    Keys = {0, 1, 2}
    Times = {}
    None = None
    MaxVersion = 30
    MaxNow = 0
    MaxReusedIds = 0
    Workers = {w1, w2}
    Callers = {planner, cursor}
    Endings = {"completed", "question"}
    AgentKeys = {}
    Reporters = {cursor}
    MaxAttempts = 1
    MaxRuns = 2
    MaxCrashes = 1
CONSTRAINT OneReportByHand
CHECK_DEADLOCK FALSE
SYMMETRY WorkerSymmetry
INVARIANTS
    DispatchTypeOK
    OneRunPerDispatch
    SettledMeansAcknowledged
