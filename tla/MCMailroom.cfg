\* Every pair of programs that meets on the folders, with and without faults.
CONSTANTS
    Nobody = Nobody
    m1 = m1
    m2 = m2
    m3 = m3
    w1 = w1
    w2 = w2
    Message = {m1, m2, m3}
    NoMessageId = {m3}
    Folder <- MCFolder
    Inbox = "INBOX"
    Archive = "Archive"
    Initially <- MCInitially
    MaxUid = 4
    Uidplus = FALSE
    Worker = {w1, w2}
    MaxTime = 1
    MaxRow = 2
    Skew = 0
    BulkUidLimit = 2
    RuleAction <- MCRuleAction
    Settings <- MCSettings

SPECIFICATION FairSpec
CHECK_DEADLOCK FALSE
INVARIANTS
    NothingElseIsLost
    
    ReturnsItsOwn
PROPERTIES
    SnoozedComesBack
