SPECIFICATION Spec
CONSTANTS
    Runs = {r1}
    NoRun = NoRun
    Editors = {e1}
    Queued = {"md"}
    Requested = {}
    Edits = {"transcript", "notes", "confirm"}
    HasRelated = FALSE
    MaxRevision = 8
    MaxSource = 0
INVARIANT MetadataIsCurrent
CHECK_DEADLOCK FALSE
