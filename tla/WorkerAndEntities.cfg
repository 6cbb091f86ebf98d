\* Lease: two processes, a lease of two ticks and time for three lease periods.
\* Drain, no faults: one producer at a time, three units of work, two executions
\* and two signals.
\* Entities: three of them, one letter, two ties, an undo request, and two
\* merges, edits or extractions.
SPECIFICATION WorkerAndEntitiesSpec
CONSTANTS
    Workers = {a1, a2}
    NoToken = NoToken
    Duration = 2
    MaxTime = 6
    Executions = {a1, a2}
    Jobs = {b1, b2, b3}
    Requests = {q1}
    Reconciler = {}
    NoOne = NoOne
    Silent = FALSE
    MaxCommits = 5
    MaxFaults = 0
    MaxSignals = 2
    MaxExecutions = 2
    Entities = {b1, b2, b3}
    Documents = {d}
    RowIds = {a1, a2}
    Unused = Unused
    Removed = Removed
    Undoers = {u1}
    MaxEntityChanges = 2
    MaxRevision = 2
SYMMETRY Symmetry
INVARIANTS
    TypeOK
    OwnershipIsBacked
    NothingLeftBehind
    GraphIsSound
PROPERTIES
    TokensChangeFairly
    ImplementsMutex
    UndoIsExact
    HumanTiesSurvive
\* The clock stops at MaxTime, the producers at MaxCommits and the entities at
\* MaxEntityChanges.
CHECK_DEADLOCK FALSE
