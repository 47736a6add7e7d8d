\* A blocking question of another run is accepted.
SPECIFICATION LifecycleSpec
CONSTANTS
    Sender = planner
    Recipient = cursor
    Broker = awr
    Actors = {planner, cursor}
    PlanIds = {p1}
    PlanShas = {h1, h2}
    Runs = {r1, r2}
    Keys = {1, 2}
    Times = {}
    None = None
    MaxVersion = 8
    MaxNow = 0
    MaxDetours = 1
    MaxReusedIds = 0
CONSTRAINT Explored
SYMMETRY ValueSymmetry
CHECK_DEADLOCK FALSE
INVARIANT
    QuestionsAreOfBoundRun
