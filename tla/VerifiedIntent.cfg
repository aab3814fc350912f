CONSTANTS
    Registry <- TheRegistry
    Consumer <- TheConsumer
    Drafts <- OneRefDrafts
    DraftOf <- DraftFiles
    Replacements <- Edited
    Environments = {"public_demo", "test"}
    Exporters <- TwoExporters
    Missing = Missing
    Torn = Torn
    MaxExports = 2
    MaxMishaps = 1
SPECIFICATION Spec
INVARIANTS
    TypeOK
    PacketDescribesWhatWasJudged
    SpellingNeverHelps
PROPERTIES
    HandoffIsOneExport
    WholeBundleIsAccepted
