\* Images: three requests of one representation, two of them anonymous, one slot,
\* one queued job, two waiters per job, a replaced source and a hidden page.
\* Autosave: two lanes, two visits, two edits, a navigation guard and a request
\* that outlives its answer; or the mutation executor beside the guard.
SPECIFICATION ClientsSpec
CONSTANTS
    ImageRequests = {r1, r2, r3}
    Visitors = {r1, r2}
    Concurrency = 1
    MaxQueued = 1
    MaxWaiters = 2
    NoBytes = NoBytes
    MaxReplacements = 1
    MaxToggles = 1
    Fields = {hook}
    Photo = photo
    Flushers = {guard, executor}
    Guard = guard
    MaxVisits = 2
    MaxKeys = 2
    MaxLost = 1
INVARIANTS
    ClientsTypeOK
    SlotsAreNeverLost
    CachedBytesAreWhatTheyName
PROPERTIES
    ImageRequestsEnd
    FlushedMeansStored
    SavesKeepOrder
    FairFlushesEnd
\* Requests, visits and edits run out.
CHECK_DEADLOCK FALSE
