SPECIFICATION MCSpec
CONSTANTS
    h1 = h1
    h2 = h2
    h3 = h3
    Handlers <- ThreeHandlers
    Situations = {"two", "newList"}
    Checklists0 <- OneItemAndNone
    Modes = {TRUE, FALSE}
    MaxRequests = 3
    MaxFetches = 1
CHECK_DEADLOCK FALSE
INVARIANTS
    InSync
    Idempotent
