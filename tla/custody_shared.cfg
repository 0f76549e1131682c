\* Two Store objects over one directory: the module is initialised again while
\* steps still hold the object it registered before.  Every step returns (no
\* symmetry: a liveness property is checked).
SPECIFICATION FairSpec
CONSTANTS
    None = None
    p1 = p1
    p2 = p2
    Procs = {p1, p2}
    Names = {"store"}
    o1 = o1
    o2 = o2
    Objects = {o1, o2}
    Ids = {}
    d1 = d1
    d2 = d2
    Devices = {d1}
    KekRefs = {"k1", "k2"}
    Resolvable = {"k1", "k2"}
    KekVersions = {"v1"}
    ConfigKeks <- MCConfigOne
    Reload = TRUE
INVARIANTS SealedUnderItsLabel
PROPERTIES CallsReturn
