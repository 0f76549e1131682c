\* Two steps in flight, with and without a transport, and a transport that may be
\* initialised again.
SPECIFICATION Spec
CONSTANTS
    None = None
    Global = Global
    p1 = p1
    p2 = p2
    Procs = {p1, p2}
    Transports = {"t"}
    o1 = o1
    o2 = o2
    Objects = {o1, o2}
    k1 = k1
    k2 = k2
    Keys = {k1}
    r1 = r1
    r2 = r2
    Requests = {r1, r2}
    Reload = TRUE
    RefLess = TRUE
VIEW MCView
SYMMETRY MCSymmetry
INVARIANTS TypeOK IdempotentUndisturbed RecordsAreComplete
