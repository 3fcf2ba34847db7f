SPECIFICATION Spec
CONSTANTS
    Requests = {r1, r2}
    Threads = {t1, t2}
    Routes <- RouteKinds
    None = None
SYMMETRY MCSymmetry
INVARIANT
    SamplesAttributed
CHECK_DEADLOCK FALSE
