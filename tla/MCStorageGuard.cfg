\* Passes, growth, failures and the operator; an update arrives at any moment.
SPECIFICATION FairSpec
CONSTANTS
    Caps = {0, 1, 20}
    Sizes = {0, 1, 15, 16, 20}
    MaxUpdates = 1
    MaxGrowth = 1
    MaxNoSpace = 1
    MaxOperated = 1
INVARIANT GuardInv
PROPERTIES RecoveryStaysPaused IngestionResumes ReclamationStarts
