SPECIFICATION Spec
CONSTANTS
    Workflows = {"w1", "w2"}
    Effects = {"a", "b"}
    Capabilities = {"k1"}
    Policies = {"q1", "q2"}
    Undeclared = Undeclared
    Contexts = {c1, c2}
    OpsVersions <- TwoVersions
    Externals = {"e1", "e2"}
    ProfileOperations <- AddedOperation
    Drafts <- ReplayedDrafts
    Snapshots <- CapturedBundles
    None = None
    NotLoaded = NotLoaded
    MaxJobs = 2
    MaxChanges = 2
SYMMETRY Symmetry
CHECK_DEADLOCK FALSE
INVARIANTS
    TypeOK
    PassedReplayJudgesWhatItNames
    PassedReplayIsAboutTheFile
    JudgedInItsOwnContext
    NarrowingChangesNeverAdmit
