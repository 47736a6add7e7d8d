\* Three sessions of up to three processes, with claims of the execution lease in between.
SPECIFICATION FirestoreSpec
CONSTANTS
    Processes = {p1, p2, p3}
    MaxSessions = 3
    MaxClaims = 2
SYMMETRY ProcessSymmetry
CHECK_DEADLOCK FALSE
INVARIANTS
    FirestoreTypeOK
    LedgerIsWhole
    OnePost
PROPERTY LifecycleIsCompared
