\* Migrations, exports and restores: alone with failures, and overlapping.
CONSTANTS
    Nobody = Nobody
    Damaged = Damaged
    m1 = m1
    m2 = m2
    m3 = m3
    w1 = w1
    w2 = w2
    Message = {m1, m2, m3}
    MessageId <- MCMessageId
    Folder <- MCFolder
    FolderMapping <- MCFolderMapping
    Initially <- MCInitially
    MaxEpoch = 2
    BatchSize = 2
    Worker = {w1, w2}
    Settings <- MCSettings

SPECIFICATION Spec
CHECK_DEADLOCK FALSE
INVARIANTS
    MigrationCovers
    MapIsTrue
    NoSecondCopy
    RestoreIsIdempotent
    ManifestIsComplete
    RestoresGenuine
    RestoreAccounts
