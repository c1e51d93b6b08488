SPECIFICATION Spec
CONSTANTS
    creator = creator
    u1 = u1
    h1 = h1
    h2 = h2
    None = None
    Users <- TwoUsers
    Creator <- creator
    Handlers <- TwoHandlers
    Options = {"", "a"}
    Unset = ""
    Shown = {"a"}
    Tasks <- OwnerAndConditional
    MaxItems = 3
    MaxRequests = 3
    MaxMishaps = 1
SYMMETRY HandlerSymmetry
CHECK_DEADLOCK FALSE
INVARIANTS
    RolesFollowOwner
    OwnerTakesPart
    AssigneesFollowField
    ConditionsApplied
PROPERTY TouchedStaysVisible
