\* Two drafts, one the human's and one the agent's, and one sweep under
\* fairness; no fault.  No symmetry: this run checks liveness.
CONSTANTS
    NoToken = NoToken
    NoDraft = NoDraft
    Draft = {d1, d2}
    Token = {t1, t2}
    CreatedBy = {"human", "agent", "unknown"}
    MaxEdits = 1
    MaxAttempts = 3
    Faults = FALSE
    MaxDeliveries = 1
    Sweeper = {s1}
    Sender = {}
    Syncer = {}
    LocalOnly = {d1, d2}
    Attended = {d1}
    Delegated = {d2}

SPECIFICATION FairSpec
PROPERTIES
    OutboxDrains

CHECK_DEADLOCK FALSE
