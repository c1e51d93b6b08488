CONSTANTS
    Workers = {w1, w2}
    Requests = {"finish", "restore", "disableUpdates", "enableRetro", "updateStatus", "updateAndFinish", "publishRetro", "edit"}
    Fallible = {"user", "post", "removePost", "db", "archive", "unarchive"}
    Serial = FALSE
    RetrospectiveAllowed = TRUE
    RetroRecurs = TRUE
    AutoArchive = TRUE
    ManualChannelOps = FALSE
    MaxRequests = 3
    MaxCrashes = 1
SPECIFICATION MCSpec
SYMMETRY WorkerSymmetry
PROPERTY FinishedStaysFinished
