CONSTANTS
    Payloads <- Drafts
    Layouts <- TwoLayouts
    Canon <- NormalForm
    Scoped <- Drafts
    Missing = Missing
    Garbled = Garbled
    Paths <- TwoPaths
    DraftPath = "draft"
    ArtifactPath = "artifact"
    Recorded <- RecordedPlain
    HasRoot = TRUE
    MaxEdits <- DraftOnceArtifactSeven
SPECIFICATION Spec
INVARIANTS
    TypeOK
    QuietRunIsBound
    StableDraftIsBound
PROPERTIES
    CommentKeepsWarrant
