\* A sweep and two immediate sends compete for a draft that the human decides
\* about, with every fault.
CONSTANTS
    NoToken = NoToken
    NoDraft = NoDraft
    Draft = {d1}
    Token = {t1, t2}
    CreatedBy = {"human"}
    MaxEdits = 1
    MaxAttempts = 3
    Faults = TRUE
    MaxDeliveries = 3
    Sweeper = {s1}
    Sender = {c1, c2}
    Syncer = {}
    LocalOnly = {d1}
    Attended = {d1}
    Delegated = {d1}

SPECIFICATION Spec
SYMMETRY Symmetry

INVARIANTS
    NoOtherDuplicate
PROPERTIES
    TerminalIsFinal
    KeepsDeliveryPromise

CHECK_DEADLOCK FALSE
