CONSTANTS
    Users = {u}
    MaxOps = 2
    MaxTrouble = 1
SPECIFICATION Spec
INVARIANTS AssigneesAreInvited ShownIsStored
PROPERTY EditsSurvive
CHECK_DEADLOCK FALSE
