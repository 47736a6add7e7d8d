\* A session whose status was read before another one's commit, and its ledger after it.
SPECIFICATION FirestoreSpec
CONSTANTS
    Processes = {p1, p2}
    MaxSessions = 2
    MaxClaims = 0
CHECK_DEADLOCK FALSE
PROPERTY StatusIsCompared
