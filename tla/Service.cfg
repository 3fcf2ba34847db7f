SPECIFICATION FairSpec
CONSTANTS
    Requests = {r1, r2}
    Workers = {w1, w2}
    Sent = {"ping", "tpm_get", "tpm_post", "get", "post", "unknown"}
    MayHang = TRUE
    SinkFails = TRUE
    None = None
CHECK_DEADLOCK FALSE
INVARIANTS
    TypeOK
    AuditComplete
PROPERTIES
    EveryRequestEnds
    HangIsContained
