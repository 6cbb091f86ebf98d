\* A letter with related items: all four stages, page changes and human saves.
SPECIFICATION Spec
CONSTANTS
    Runs = {r1, r2}
    NoRun = NoRun
    Editors = {e1}
    Queued = {"tx", "md", "en", "ex"}
    Requested = {"tx", "en", "ex"}
    Edits = {"transcript", "metadata", "notes", "extra", "confirm", "cancel", "remove",
             "retry", "primaryPages", "extraPages", "relatedPages"}
    HasRelated = TRUE
    MaxRevision = 4
    MaxSource = 1
SYMMETRY Symmetry
INVARIANTS
    OwnersReadCurrentInput
    ResultsAreCurrent
PROPERTIES
    RequestedIsNotRequeued
    OnlyLiveOwnersPublish
\* Nothing that advances metadataRevision starts at MaxRevision.
CHECK_DEADLOCK FALSE
