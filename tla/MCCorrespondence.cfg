\* Every cast that meets over the thread cache and the address book.
CONSTANTS
    Nobody = Nobody
    m1 = m1
    m2 = m2
    m3 = m3
    a1 = a1
    a2 = a2
    w1 = w1
    w2 = w2
    Message = {m1, m2, m3}
    Address = {a1, a2}
    Folder <- MCFolder
    Folders <- MCFolders
    Initially <- MCInitially
    Arriving <- MCArriving
    Parsed <- MCParsed
    Settings <- MCSettings
    Scanner = {w1, w2}
    MaxEpoch = 2
    MaxUid = 3
    MaxRow = 6
    ChunkRows = 2
    SentWindow = 1
    MaxSent = 2
    MaxMessages = 1

SPECIFICATION Spec
CHECK_DEADLOCK FALSE
INVARIANTS
    CountsAreTrue
    SentIsSuggestible
    CuratedStays
    
