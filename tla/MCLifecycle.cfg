\* The response lifecycle through a whole revision, up to its second review.
SPECIFICATION LifecycleSpec
CONSTANTS
    Sender = planner
    Recipient = cursor
    Broker = awr
    Actors = {planner, cursor}
    PlanIds = {p1}
    PlanShas = {h1}
    Runs = {r1, r2}
    Keys = {1, 2}
    Times = {}
    None = None
    MaxVersion = 16
    MaxNow = 0
    MaxDetours = 2
    MaxReusedIds = 0
CONSTRAINT Explored
SYMMETRY ValueSymmetry
CHECK_DEADLOCK FALSE
INVARIANTS
    OneAcknowledgementPerDispatch
    BlockedOriginIsCoherent
    ReportsAreOfBoundRun
    ReviewIsOfLatestCompletion
PROPERTY
    TerminalIsFinal
