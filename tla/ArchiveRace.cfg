CONSTANTS
    Workers = {w1, w2}
    Requests = {"finish", "edit"}
    Fallible = {}
    Serial = FALSE
    RetrospectiveAllowed = TRUE
    RetroRecurs = FALSE
    AutoArchive = TRUE
    ManualChannelOps = FALSE
    MaxRequests = 2
    MaxCrashes = 0
SPECIFICATION MCSpec
INVARIANT ArchivedHasFlag
