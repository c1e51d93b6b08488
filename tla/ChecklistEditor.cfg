CONSTANTS
    Templates <- BothTemplates
    MaxEdits = 3
    MaxMoves = 3
    MaxTasks = 8
    MaxCreated = 1
    MaxSelected = 2
    MaxTrouble = 1
SPECIFICATION MCSpec
INVARIANTS GroupsStayTogether UnsentIsDue EditsAreStored NoConditionIsMissing
CHECK_DEADLOCK FALSE
