CONSTANTS
    Registry <- TheRegistry
    Consumer <- TheConsumer
    Drafts <- AllDrafts
    DraftOf <- DraftFiles
    Replacements <- Edited
    Environments = {"public_demo", "test"}
    Exporters <- TwoExporters
    Missing = Missing
    Torn = Torn
    MaxExports = 1
    MaxMishaps = 0
SPECIFICATION Spec
INVARIANTS
    PacketClaimsOnlyWhatTheLedgerHolds
