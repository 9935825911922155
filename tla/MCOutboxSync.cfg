\* A modify or discard command, a sweep and an immediate send on a draft with a
\* provider copy that an agent queues, with every fault.
CONSTANTS
    NoToken = NoToken
    NoDraft = NoDraft
    Draft = {d1}
    Token = {t1, t2}
    CreatedBy = {"agent"}
    MaxEdits = 1
    MaxAttempts = 3
    Faults = TRUE
    MaxDeliveries = 2
    Sweeper = {s1}
    Sender = {c1}
    Syncer = {m1}
    LocalOnly = {}
    Attended = {}
    Delegated = {d1}

SPECIFICATION Spec
SYMMETRY Symmetry

INVARIANTS
    ClaimsExclude
PROPERTIES
    OrphansAreInert

CHECK_DEADLOCK FALSE
