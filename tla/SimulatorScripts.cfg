SPECIFICATION Spec
CONSTANTS
    Scripts = {s1, s2, s3, s4}
    Pids = {p1, p2}
    None = None
CHECK_DEADLOCK FALSE
INVARIANTS
    TypeOK
    PidFileNamesSimulator
PROPERTY StopStops
