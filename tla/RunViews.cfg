SPECIFICATION MCSpec
CONSTANTS
    Home <- Homes
    Teams = {"t1", "t2"}
    Mine = {1, 2, 4}
    Recent = {1, 3}
    Stored <- LastUpdated
    PerPage = 1
    Lists = {"runs", "usage", "metrics"}
    MaxEvents = 3
    MaxFetches = 2
    Channels = {"c1", "c2"}
    MaxRuns = 4
    PageSize = 2
    StoredHere <- OneOrThree
    Values = {0, 1, 2}
    Roles = {"owner"}
    Properties = {1}
    Unchosen = Unchosen
    MaxClicks = 2
    MaxOthers = 1
    MaxFailures = 1
CHECK_DEADLOCK FALSE
INVARIANTS
    RunsInOrder
    ChoicesKept
    MoreCanBeFetched
    SingleRunOpens
    CreatedRunOpens
    RowShowsTask
    ChoicesStored
