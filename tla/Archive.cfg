SPECIFICATION ArchiveSpec
CONSTANTS
    Slots = {s1, s2}
    Legacy = {s1}
    Uploads = {a1, a2}
    Deletions = {d1}
    Readers = {e1}
    Contents = {x, y}
    Damaged = Damaged
    None = None
    MaxFaults = 1
    Primary = L
    Companion = P
    Admins = {a1, a2}
    Texts = {x, y}
    Records = {m}
    NoText = NoText
    MaxEvents = 1
    Curators = {a1, a2}
    ProfileReaders = {v1}
    Profiles = {x, y}
    Sources = {f, g}
    Blank = Blank
    MaxSourceChanges = 1
    Tabs = {a1, a2}
    Wordings = {f, g}
    Guidances = {z}
    NoGuidance = NoGuidance
    MaxConfirmations = 1
    MaxChanges = 1
    MaxRetries = 1
    MaxRuns = 1
    MaxUnsure = 1
SYMMETRY Symmetry
INVARIANTS
    ArchiveTypeOK
    ContentIsStoredOnce
    DerivedDataFollowsBytes
    ObjectsMatchPages
    ReviewersHaveTheLastWord
    GroupsAreUniform
    VerifiedProfilesWereSeen
    PublicProfilesWereVerified
    ReportedConfirmationsAreReal
    
PROPERTIES
    ImplementsCatalogue
    NothingUnseenIsReplaced
CHECK_DEADLOCK FALSE
