\* Two watches on one folder, one of them without --deliver; no route, no fault.
CONSTANTS
    NoDelivery = NoDelivery
    Everything = {}
    MessagesOnly = {}
    Route <- MCRoute
    Matches <- MCMatches
    MaxUid = 2
    MaxValidity = 1
    Coded = {2}
    Watcher = {w1, w2}
    Delivering = {w1}
    Executor = {w1}
    MaxAttempts = 0
    MaxPosts = 0
    MaxRetries = 0
    Faults = FALSE

SPECIFICATION Spec
INVARIANTS
    WatermarkCovered
    
    CodesAreAnnounced

