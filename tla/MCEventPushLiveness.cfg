\* The dashboard's sweeper and a watch post the same deliveries, without faults;
\* the sweeper is fair.
CONSTANTS
    NoDelivery = NoDelivery
    Everything = {}
    MessagesOnly = {r1}
    Route <- MCRoute
    Matches <- MCMatches
    MaxUid = 1
    MaxValidity = 0
    Coded = {}
    Watcher = {w1}
    Delivering = {w1}
    Executor = {w1, s1}
    MaxAttempts = 1
    MaxPosts = 8
    MaxRetries = 1
    Faults = FALSE

SPECIFICATION FairSpec
INVARIANTS
    EventsAreQueued
    AttemptsCountPosts
    DeadIsDeserved
PROPERTIES
    DeliveriesSettle

