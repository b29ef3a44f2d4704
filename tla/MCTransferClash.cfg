SPECIFICATION Spec
CONSTANTS
    a = a
    b = b
    None = None
    Sources = {a, b}
    NameOf <- OneName
    SizeOf <- Lengths
    MaxActive = 1
    BulkRoom = 1
    MaxOffers = 2
    MaxCopies = 3
    MaxTrouble = 0
    Careful = FALSE
PROPERTIES NeverOverwrites
CHECK_DEADLOCK FALSE
