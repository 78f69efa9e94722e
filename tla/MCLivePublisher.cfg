\* Exports, failing queries, and viewers that hide and appear.
SPECIFICATION FairSpec
CONSTANTS
    Callbacks = {c1, c2}
    MaxExports = 3
    MaxErrors = 1
    MaxAbsences = 1
INVARIANTS PublisherInv
PROPERTIES AcceptedIsShown ComesToRest
CHECK_DEADLOCK FALSE
