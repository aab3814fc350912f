SPECIFICATION Spec
CONSTANTS
    Issuers = {p1,p2}
    Replayers = {q1}
    Drafts = {d1}
    Contents = {c1}
    Kinds = {"issue", "gate"}
    Contracts = {"v1"}
    MaxIssues = 2
    MaxEdits = 0
    MaxCrashes = 1
    GateSlot = GateSlot
    NoFile = NoFile
    Torn = Torn
SYMMETRY Symmetry
CHECK_DEADLOCK FALSE
INVARIANTS
    NoMixedBundle
    OnlyFinishedIssuesPass
