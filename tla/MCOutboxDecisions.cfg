\* One local draft under every decision of the human and the agent, with two
\* sweeps at work and every fault.
CONSTANTS
    NoToken = NoToken
    NoDraft = NoDraft
    Draft = {d1}
    Token = {t1, t2}
    CreatedBy = {"human", "agent", "unknown"}
    MaxEdits = 2
    MaxAttempts = 3
    Faults = TRUE
    MaxDeliveries = 2
    Sweeper = {s1, s2}
    Sender = {}
    Syncer = {}
    LocalOnly = {d1}
    Attended = {d1}
    Delegated = {d1}

SPECIFICATION Spec
SYMMETRY Symmetry

INVARIANTS
    TypeOK
    ClaimFreezesRow
    GovernorSkippedOnlyByClick
    ApprovalCoversContent
    DeclarationCoversContent
    HeldStaysHeld
    CorrectedIsGoverned

CHECK_DEADLOCK FALSE
