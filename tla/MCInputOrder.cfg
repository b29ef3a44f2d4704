SPECIFICATION FairSpec
CONSTANTS
    Keys = {}
    Buttons = {}
    NoItem = NoItem
    LinkCap = 1
    MaxDisplays = 1
    MaxSeq = 3
    MaxOther = 1
    MaxChanges = 0
INVARIANTS MoveBacklogBounded
PROPERTIES ImplementsInputOrder EventuallyHandled
CHECK_DEADLOCK FALSE
