SPECIFICATION Spec
CONSTANTS
    Runs = {r1, r2}
    NoRun = NoRun
    Editors = {e1}
    Queued = {"tx", "md"}
    Requested = {"tx"}
    Edits = {"extra", "extraPages", "confirm"}
    HasRelated = TRUE
    MaxRevision = 4
    MaxSource = 1
SYMMETRY Symmetry
INVARIANT PendingMetadataIsQueued
CHECK_DEADLOCK FALSE
