SPECIFICATION FairSpecAll
CONSTANTS
    Ids = {d1, d2}
    NoId = NoId
    MaxConn = 2
    MaxMade = 1
    MaxFail = 0
    MaxSessions = 1
    OutCap = 1
CONSTRAINT Open
PROPERTIES TasksGoOn ElevationSettles
CHECK_DEADLOCK FALSE
