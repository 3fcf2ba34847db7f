SPECIFICATION Spec
CONSTANTS
    Indices = {1}
    Chains = {c1, c2}
    Fields = {f}
    Values = {v, w}
    Worded = {w}
    MaxLines = 4
    Width = 2
    MaxTyped = 6
    Lengths = {0, 1023, 1024, 1025}
    MaxChanged = 1
    LastYear = 2370
    SecondsOfDay = {0, 3599, 86399}
    Routes = {"information_tpm", "quote_tpm", "attestation_all", "verify_all", "attestation_with_random_number", "verify_report", "parse_report", "gpu_attestation"}
    MaxTicks = 3
    None = None
CHECK_DEADLOCK FALSE
INVARIANTS
    TypeOK
    ResultMatchesText
    AcceptedIffMeant
    BoundToOneChallenge
    RoutesAgree
    StampCorrect
    StagesAddUp
    PairsNested
PROPERTIES
    OneByteOneField
    LayoutRespected
    StampsIncrease
