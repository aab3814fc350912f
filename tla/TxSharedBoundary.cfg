SPECIFICATION Spec
CONSTANTS
    Drafts <- TwoTransactions
    Replacements = {}
    Environments = {"public_demo"}
    MaxEdits = 0
CHECK_DEADLOCK FALSE
INVARIANTS
    EachTransactionIsAtomic
