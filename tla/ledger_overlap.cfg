\* Two test steps, no transports: the steps that share one ledger.
SPECIFICATION Spec
CONSTANTS
    None = None
    Global = Global
    p1 = p1
    p2 = p2
    Procs = {p1, p2}
    Transports = {}
    Objects = {}
    k1 = k1
    Keys = {k1}
    r1 = r1
    r2 = r2
    Requests = {r1, r2}
    Reload = FALSE
    RefLess = FALSE
INVARIANTS TestStepsAreIdempotent
