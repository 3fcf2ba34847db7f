SPECIFICATION Spec
CONSTANTS
    Requests = {r1, r2, r3}
    Threads = {t1, t2}
    Routes <- RouteKinds
    None = None
SYMMETRY MCSymmetry
INVARIANTS
    TypeOK
    GuardedSamplesAttributed
    InflightBounded
    ConcurrencyCountsSelf
CHECK_DEADLOCK FALSE
