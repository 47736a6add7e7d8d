\* Every handler, the planning poll and expiring decisions, up to completion.
SPECIFICATION Spec
CONSTANTS
    Sender = planner
    Recipient = cursor
    Broker = awr
    Actors = {planner, cursor}
    PlanIds = {p1}
    PlanShas = {h1, h2}
    Runs = {r1}
    Keys = {1, 2}
    Times = {1}
    None = None
    MaxVersion = 10
    MaxNow = 1
    MaxDetours = 1
    MaxReusedIds = 1
CONSTRAINT Explored
SYMMETRY ValueSymmetry
CHECK_DEADLOCK FALSE
INVARIANTS
    TypeOK
    ApprovedBeforeExecution
    SeparationOfDuties
    LineageIsLinear
    OneEffectPerKey
PROPERTY
    PlanFingerprintIsFrozen
