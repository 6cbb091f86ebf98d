SPECIFICATION DrainSpec
CONSTANTS
    Executions = {w1, w2}
    Jobs = {j1, j2}
    Requests = {q1, q2}
    Reconciler = {}
    NoOne = NoOne
    Silent = FALSE
    MaxCommits = 3
    MaxFaults = 0
    MaxSignals = 0
    MaxExecutions = 2
INVARIANT NothingLeftBehind
CHECK_DEADLOCK FALSE
