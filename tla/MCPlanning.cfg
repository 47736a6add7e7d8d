\* A new work order or a refinement, with or without a bundle: submissions, replays, refreshes, crashes.
SPECIFICATION FairPlanningSpec
CONSTANTS
    Callers = {c1, c2}
    Payloads = {m1, m2}
    None = None
    Endings <- MCEndings
    MaxCalls = 3
    MaxRuns = 2
    MaxCrashes = 1
CHECK_DEADLOCK FALSE
INVARIANTS
    PlanningTypeOK
    LoggedOnce
    AnswersAgree
    PlanIsOfOwnRun
    OneRunWithoutParent
PROPERTIES
    PlanStaysReady
    PlanArrives
    PlanningIsAHandOff
