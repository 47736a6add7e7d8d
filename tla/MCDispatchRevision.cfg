\* Two workers race across a revision: an old attempt meets a new one.
SPECIFICATION DispatchSpec
CONSTANTS
    Sender = planner
    Recipient = cursor
    Broker = awr
    Actors = {planner, cursor}
    PlanIds = {p1}
    PlanShas = {h1}
    Runs = {1, 2}
    Keys = {0, 1, 2}
    Times = {}
    None = None
    MaxVersion = 30
    MaxNow = 0
    MaxReusedIds = 0
    Workers = {w1, w2}
    Callers = {planner}
    Endings = {"completed"}
    AgentKeys = {}
    Reporters = {}
    MaxAttempts = 2
    MaxRuns = 2
    MaxCrashes = 1
CHECK_DEADLOCK FALSE
SYMMETRY WorkerSymmetry
INVARIANT
    BoundRunIsPollable
PROPERTY
    ExecutionIsAHandOff
