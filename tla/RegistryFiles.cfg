SPECIFICATION Spec
CONSTANTS
    Processes = {p1, p2}
    Components <- SafetyAndLedger
    Versions = {v1, v2}
    Accepting = {v1, v2}
    Corrupt = Corrupt
    Absent = Absent
    Empty = Empty
    NotLoaded = NotLoaded
    LoadError = LoadError
    Issue = Issue
    MaxEdits = 2
    MaxRuns = 2
SYMMETRY Symmetry
CHECK_DEADLOCK FALSE
INVARIANTS
    TypeOK
    PassedMeansJudgedAsBound
    PassedReceiptReplays
    SidecarBindsWhatJudged
