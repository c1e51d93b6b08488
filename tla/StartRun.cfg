CONSTANTS
    pbA = pbA
    pbB = pbB
    fieldA = fieldA
    fieldB = fieldB
    nameA = nameA
    nameB = nameB
    chan = chan
    editor = editor
    r1 = r1
    r2 = r2
    None = None
    Playbooks = {pbA, pbB}
    Fields = {fieldA, fieldB}
    Names = {nameA, nameB}
    Editors = {editor}
    Requests = {r1, r2}
    Channels = {chan}
    CurrentChannel = chan
    MaxSaves = 1
    MaxEdits = 3
    MaxEntries = 3
    MaxRetryEntries = 2
SPECIFICATION MCFairSpec
INVARIANTS NumbersAreUnique OneRequestAtATime ModeFitsPlaybook ValuesOfSelected
PROPERTIES HealRemovesGhosts SubmissionEnds
CHECK_DEADLOCK FALSE
