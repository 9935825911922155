\* The dashboard's sweeper and a watch, with every fault.
CONSTANTS
    NoDelivery = NoDelivery
    Everything = {}
    MessagesOnly = {r1}
    Route <- MCRoute
    Matches <- MCMatches
    MaxUid = 1
    MaxValidity = 0
    Coded = {}
    Watcher = {w1}
    Delivering = {w1}
    Executor = {w1, s1}
    MaxAttempts = 1
    MaxPosts = 3
    MaxRetries = 1
    Faults = TRUE

SPECIFICATION Spec
INVARIANTS
    TypeOK
PROPERTIES
    KeepsPushPromise

