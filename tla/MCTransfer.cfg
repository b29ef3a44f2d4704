SPECIFICATION Spec
CONSTANTS
    a = a
    b = b
    None = None
    Sources = {a, b}
    NameOf <- OwnNames
    SizeOf <- Lengths
    MaxActive = 1
    BulkRoom = 1
    MaxOffers = 2
    MaxCopies = 3
    MaxTrouble = 1
    Careful = TRUE
CONSTRAINT OneAtTrouble
INVARIANTS FilesAreWhole ChunksContinueTheFile RevokedStopsReceiving QuietMeansSettled
PROPERTIES NeverOverwrites
CHECK_DEADLOCK FALSE
