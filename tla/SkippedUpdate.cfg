SPECIFICATION MCSpec
CONSTANTS
    h1 = h1
    h2 = h2
    h3 = h3
    Handlers <- ThreeHandlers
    Situations = {"two"}
    Checklists0 <- TwoItemsAndNone
    Modes = {TRUE}
    MaxRequests = 2
    MaxFetches = 0
CHECK_DEADLOCK FALSE
INVARIANT SkippedIsContained
