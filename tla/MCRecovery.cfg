\* Two steps of the backoff (8 in the code), two identities lost, two connections served.
SPECIFICATION FairSpecAll
CONSTANTS
    OutRoom = 1
    LastStep = 1
    MaxMishaps = 2
    MaxIds = 3
    MaxEras = 2
    MaxChanges = 2
    c1 = c1
    c2 = c2
    p1 = p1
    Watchdog = Watchdog
    Nobody = Nobody
    NoPid = NoPid
PROPERTIES GrantsEnd DeviceComesBack Recovers
CHECK_DEADLOCK FALSE
