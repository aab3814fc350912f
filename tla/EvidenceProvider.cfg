CONSTANTS
    Drafts <- DraftContents
    FirstDraft <- First
    Policies <- HostPolicies
    Sources <- Kinds
    Modes <- Bindings
    Issuer = "lab"
    KeyIds = {"k1"}
    HostKey = HostKey
    OtherKey = OtherKey
    Lifetime = 3
    Score = 1
    None = None
    MaxTime = 1
    MaxEvaluationTime = 3
    MaxPublished = 2
    MaxEdits = 1
SPECIFICATION Spec
INVARIANTS
    TypeOK
    SignedRecordsWereIssued
    RevocationReachesHosts
    EvidenceIsAboutTheDraft
