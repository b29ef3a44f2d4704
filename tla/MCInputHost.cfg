SPECIFICATION Spec
CONSTANTS
    Keys = {k1}
    Buttons = {b1}
    NoItem = NoItem
    LinkCap = 1
    MaxDisplays = 2
    MaxSeq = 2
    MaxOther = 0
    MaxChanges = 2
INVARIANTS RevokedIsReleased OverIsReleased
CHECK_DEADLOCK FALSE
