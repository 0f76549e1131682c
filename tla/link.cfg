\* Three steps, two consents, a clock that may pass every expiry but one.
SPECIFICATION Spec
CONSTANTS
    p1 = p1
    p2 = p2
    p3 = p3
    Procs = {p1, p2, p3}
    c1 = c1
    c2 = c2
    Consents = {c1, c2}
    Expiries <- MCExpiries
    MaxClock = 2
SYMMETRY MCSymmetry
INVARIANTS TypeOK NoTwoCeremonies
PROPERTIES NoReplayBeforeExpiry
