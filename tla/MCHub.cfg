SPECIFICATION Spec
CONSTANTS
    Ids = {d1, d2, d3}
    NoId = NoId
    MaxConn = 3
    MaxMade = 2
    MaxFail = 1
    MaxSessions = 1
    OutCap = 1
SYMMETRY Symmetry
CONSTRAINTS TwoBusy OneOrTwo
INVARIANTS RelayOnlyBetweenPeers SupersededIsKicked HubConsistent ReportedOnce
CHECK_DEADLOCK FALSE
