\* A step that samples the clock and then waits for the mutex.
SPECIFICATION Spec
CONSTANTS
    p1 = p1
    p2 = p2
    p3 = p3
    Procs = {p1, p2}
    c1 = c1
    c2 = c2
    Consents = {c1, c2}
    Expiries <- MCExpiries
    MaxClock = 2
SYMMETRY MCSymmetry
PROPERTIES ArtifactAdmittedOnce
