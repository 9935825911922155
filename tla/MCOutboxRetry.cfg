\* A sweep and an immediate send of a draft the human can queue: does the
\* sweep ever transmit it again?
CONSTANTS
    NoToken = NoToken
    NoDraft = NoDraft
    Draft = {d1}
    Token = {t1, t2}
    CreatedBy = {"agent"}
    MaxEdits = 0
    MaxAttempts = 3
    Faults = TRUE
    MaxDeliveries = 2
    Sweeper = {s1}
    Sender = {c1}
    Syncer = {}
    LocalOnly = {d1}
    Attended = {d1}
    Delegated = {}

SPECIFICATION Spec
INVARIANT NoAutomaticRetry

CHECK_DEADLOCK FALSE
