SPECIFICATION Spec
CONSTANTS
    Requests = {r1, r2}
    Pids = {p1, p2}
    None = None
SYMMETRY MCSymmetry
INVARIANTS
    TypeOK
    TrustedMeansVerified
    ChecksOwnEvidence
    ScratchPrivate
