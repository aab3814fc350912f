CONSTANTS
    Profiles <- Versions
    Tools <- Both
    Descriptors <- AllDescriptors
    Calls <- Requests
    Definitions <- Given
    ArgumentAt <- Values
    ArgumentSize <- Sizes
    Conforming <- Schemas
    Portable <- NormalForms
    Absent = Absent
    Invalid = Invalid
    None = None
    HostSettings <- Reports
    Decisions <- Answers
    Transactions <- Plans
    FirstProfile <- Version1
    StrictProtocol = "2026-07-28"
    MaxTime = 1
    MaxEdits <- Once
    MaxEnvelopes = 2
    MaxObtained = 1
SPECIFICATION Spec
CHECK_DEADLOCK FALSE
INVARIANTS
    TypeOK
    ConsentCoversCall
    TransactionCoversCall
    ModelSawReviewedSchema
    PreflightIsOneReview
PROPERTIES
    JudgedAgainstFiles
