\* Uploads, scans and sweeps of one artifact at the same time, with crashes.
SPECIFICATION FairArtifactSpec
CONSTANTS
    Good = good
    Bad = bad
    Large = large
    Payloads = {good, bad, large}
    Kind <- MCKind
    Uploaders = {u1}
    Scanners = {s1, s2}
    None = None
    MaxCrashes = 1
CHECK_DEADLOCK FALSE
INVARIANTS
    ArtifactTypeOK
    VerdictIsEarned
    CleanBodyIsScanned
    JournalAgrees
    BodyKeptUntilVerdict
    CleanIsReadable
    AttachedStaysClean
PROPERTIES
    VerdictIsFinal
    OneGeneration
    ScanEndsAtLast
