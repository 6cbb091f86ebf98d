\* A letter with no related items: transcription, metadata and entities under
\* cancellation, bulk operations, concurrent edits and verification.
SPECIFICATION Spec
CONSTANTS
    Runs = {r1, r2}
    NoRun = NoRun
    Editors = {e1, e2}
    Queued = {"tx", "md", "en"}
    Requested = {"tx", "md", "en"}
    Edits = {"transcript", "metadata", "verify", "confirm", "reset", "bulk", "clear",
             "clearExtra", "cancel"}
    HasRelated = FALSE
    MaxRevision = 5
    MaxSource = 0
SYMMETRY Symmetry
INVARIANTS
    TypeOK
    ChecksHold
    StagesExclude
    MetadataIsGated
    MetadataIsCurrent
    SavesSeeWhatTheyReplace
\* Nothing that advances metadataRevision starts at MaxRevision.
CHECK_DEADLOCK FALSE
