SPECIFICATION Spec
CONSTANTS
    Drafts <- LoweredDrafts
    Replacements <- GateDrafts
    Environments = {"public_demo", "production"}
    MaxEdits = 1
CHECK_DEADLOCK FALSE
INVARIANTS
    TypeOK
    DeclaredTransactionsAreAtomic
    TaskOrderIsKept
    RequiredRolesAreAtomic
    StaleReportLowersNothing
