SPECIFICATION SpecOne
CONSTANTS
    Conns <- TwoConns
    Pids <- TwoPids
    MaxAgents = 2
    PipeRoom = 1
    MaxConnections = 2
    LaneRoom = 1
    MaxPics = 2
    MaxAsks = 2
    Devices <- TwoDevices
    MaxCommands = 3
    MaxTrouble = 2
    OutRoom = 1
    LastStep = 1
    MaxMishaps = 2
    MaxIds = 3
    MaxEras = 2
    MaxChanges = 2
    c1 = c1
    c2 = c2
    p1 = p1
    p2 = p2
    d1 = d1
    d2 = d2
    Watchdog = Watchdog
    Nobody = Nobody
    NoPid = NoPid
SYMMETRY Symmetry
CONSTRAINT Few
INVARIANTS OneExecutor NoStrayAgent StreamIsWhole HostKnows LastPictureArrives EverybodyFollows SavedIsKept SwitchAgrees RegistersSparingly
CHECK_DEADLOCK FALSE
