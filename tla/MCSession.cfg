\* One link may fail, or one side, or the host changes the permissions once.
SPECIFICATION FairSpecAll
CONSTANTS
    MaxTrouble = 1
    MaxChanges = 1
    v1 = v1
    v2 = v2
    h1 = h1
    NoView = NoView
CONSTRAINT OneOfThem
INVARIANTS SidesAgree
PROPERTIES OtherSideEnds DisconnectIsHeard DecoderStarts
CHECK_DEADLOCK FALSE
