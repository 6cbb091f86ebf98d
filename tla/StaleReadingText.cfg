SPECIFICATION PublicationSpec
CONSTANTS
    Primary = L
    Companion = P
    Admins = {a1, a2, a3}
    Texts = {x, y}
    Records = {m}
    NoText = NoText
    MaxEvents = 0
SYMMETRY Symmetry
INVARIANT PublicReadingIsTheTranscript
CHECK_DEADLOCK FALSE
