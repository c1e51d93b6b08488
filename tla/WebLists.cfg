SPECIFICATION FairSpec
CONSTANTS
    Playbooks = {1, 2, 3, 4}
    Stored <- All
    Private = {3}
    Matching = {2, 4}
    Rank <- ByColumn
    PerPage = 1
    MaxEvents = 3
    MaxCalls = 2
CHECK_DEADLOCK FALSE
INVARIANTS
    ButtonsHoldParams
    OwnChangesShow
    ChoicesKept
PROPERTY
    LoadingEnds
