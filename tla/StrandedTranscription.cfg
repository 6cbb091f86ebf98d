SPECIFICATION Spec
CONSTANTS
    Runs = {r1}
    NoRun = NoRun
    Editors = {e1}
    Queued = {"tx"}
    Requested = {}
    Edits = {"metadata", "primaryPages"}
    HasRelated = FALSE
    MaxRevision = 4
    MaxSource = 1
INVARIANT PendingTranscriptionIsQueued
CHECK_DEADLOCK FALSE
