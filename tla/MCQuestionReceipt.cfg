\* A worker dies between the report of a question and its receipt.
SPECIFICATION DispatchSpec
CONSTANTS
    Sender = planner
    Recipient = cursor
    Broker = awr
    Actors = {planner, cursor}
    PlanIds = {p1}
    PlanShas = {h1}
    Runs = {1}
    Keys = {0, 1}
    Times = {}
    None = None
    MaxVersion = 30
    MaxNow = 0
    MaxReusedIds = 0
    Workers = {w1}
    Callers = {planner}
    Endings = {"completed", "failed", "malformed", "question"}
    AgentKeys = {0}
    Reporters = {}
    MaxAttempts = 1
    MaxRuns = 1
    MaxCrashes = 1
CHECK_DEADLOCK FALSE
INVARIANT
    QuestionReceiptIsStored
