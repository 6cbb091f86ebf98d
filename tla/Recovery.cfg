\* Letter: crashing and slow attempts on every stage.
\* Drain: two executions, two units of work, two commits or one and a fault, and
\* the API's reconciliation: an execution may overlap its successor.
SPECIFICATION RecoverySpec
CONSTANTS
    Runs = {r1, r2}
    NoRun = NoRun
    Editors = {e1}
    Queued = {"tx", "md", "en", "ex"}
    Requested = {"tx", "en", "ex"}
    Edits = {"confirm", "extra"}
    HasRelated = TRUE
    MaxRevision = 3
    MaxSource = 1
    Executions = {x1, x2}
    Jobs = {j1, j2}
    Requests = {q1}
    Reconciler = {tick}
    NoOne = NoOne
    Silent = TRUE
    MaxCommits = 2
    MaxFaults = 1
    MaxSignals = 0
    MaxEvents = 2
    MaxExecutions = 1
PROPERTIES
    AttemptsEnd
    QueueSettles
    ExecutionsEnd
\* Nothing that advances metadataRevision starts at MaxRevision, and the
\* producers stop at MaxCommits.
CHECK_DEADLOCK FALSE
