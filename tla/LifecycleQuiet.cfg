CONSTANTS
    Workers = {w1}
    Requests = {"finish", "restore", "enableUpdates", "disableUpdates", "enableRetro", "disableRetro", "updateStatus", "updateAndFinish", "resetReminder", "publishRetro", "cancelRetro", "updateRetro", "edit"}
    Fallible = {}
    Serial = TRUE
    RetrospectiveAllowed = TRUE
    RetroRecurs = TRUE
    AutoArchive = TRUE
    ManualChannelOps = TRUE
    MaxRequests = 5
    MaxCrashes = 0
SPECIFICATION MCFairSpec
INVARIANTS
    RestoredStartsFresh
    NoReminderAfterFinish
    PromptsTracked
    ReportSchedulesNext
    FirstFinishArchives
PROPERTY RetroReminderRecurs
