SPECIFICATION OrphanSpec
CONSTANTS
    Requests = {r1, r2}
    Digests = {d1, d2}
    Bytes <- MCBytes
    Width = 2
    Challenges <- MCOneChallenge
    Keys = {k1, k2}
    MaxSlots = 3
    Remanufacturing = FALSE
    None = None
INVARIANT DamageContained
PROPERTY KeyProvisionedOnce
