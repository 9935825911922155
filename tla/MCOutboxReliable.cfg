\* Two modify or discard commands and an immediate send while nothing fails:
\* what the provider copies are then.
CONSTANTS
    NoToken = NoToken
    NoDraft = NoDraft
    Draft = {d1}
    Token = {t1, t2}
    CreatedBy = {"agent"}
    MaxEdits = 2
    MaxAttempts = 3
    Faults = FALSE
    MaxDeliveries = 1
    Sweeper = {}
    Sender = {c1}
    Syncer = {m1, m2}
    LocalOnly = {}
    Attended = {}
    Delegated = {}

SPECIFICATION Spec
SYMMETRY Symmetry

INVARIANTS
    OneProviderCopy
    CopiesAreKnown
    SendsClaimedContent

CHECK_DEADLOCK FALSE
