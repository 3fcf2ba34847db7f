SPECIFICATION Spec
CONSTANTS
    Requests = {r1, r2}
    Digests = {d1}
    Bytes <- MCBytes
    Width = 2
    Challenges <- MCChallenges
    Keys = {k1, k2}
    MaxSlots = 3
    Remanufacturing = TRUE
    None = None
SYMMETRY MCSymmetry
INVARIANT
    PubkeySignedQuote
