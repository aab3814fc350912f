SPECIFICATION Spec
CONSTANTS
    Issuers = {p1}
    Replayers = {}
    Drafts = {d1,d2}
    Contents = {c1,c2}
    Kinds = {"issue", "gate"}
    Contracts = {"v1", "legacy"}
    MaxIssues = 3
    MaxEdits = 1
    MaxCrashes = 2
    GateSlot = GateSlot
    NoFile = NoFile
    Torn = Torn
SYMMETRY Symmetry
CHECK_DEADLOCK FALSE
INVARIANTS
    TypeOK
    ActiveIsLatest
    FinishedBundleReplays
    IssuesKeepTheLog
PROPERTIES
    TornManifestIsKept
