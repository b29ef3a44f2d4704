\* Two texts, an empty one and one that is too long for a message; a picture, and one
\* that is too large for a frame.
SPECIFICATION SpecOne
CONSTANTS
    p = p
    q = q
    h = h
    k = k
    NoView = NoView
    Views = {p, q}
    Targets = {h, k}
    TargetOf <- Two
    OutRoom = 1
    MaxTries = 1
    MaxSessions = 2
    MaxEvents = 3
    Texts = {"x", "y", "e", "l"}
    Images = {"p", "g"}
    Unsent = {"e"}
    Invalid = {"l"}
    Unwired = {"g"}
    MaxCopies = 3
    MaxTrouble = 1
INVARIANTS Consistent SessionHasOneView NoEcho ClipboardsAgree
SYMMETRY Exchange
CHECK_DEADLOCK FALSE
