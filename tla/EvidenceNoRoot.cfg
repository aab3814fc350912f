CONSTANTS
    Payloads <- Drafts
    Layouts <- TwoLayouts
    Canon <- NormalForm
    Scoped <- Drafts
    Missing = Missing
    Garbled = Garbled
    Paths <- TwoPaths
    DraftPath = "draft"
    ArtifactPath = "artifact"
    Recorded <- RecordedPlain
    HasRoot = FALSE
    MaxEdits <- Never
SPECIFICATION Spec
INVARIANTS
    QuietRunIsBound
