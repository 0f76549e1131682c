\* One store over its directory, two steps in flight, crashes and restarts with
\* either KEK version in the configuration.
SPECIFICATION Spec
CONSTANTS
    None = None
    p1 = p1
    p2 = p2
    Procs = {p1, p2}
    Names = {"store"}
    Objects = {o1}
    o1 = o1
    Ids = {"acct"}
    d1 = d1
    Devices = {d1}
    KekRefs = {"k1", "k2"}
    Resolvable = {"k1", "k2"}
    KekVersions = {"v1", "v2"}
    ConfigKeks <- MCConfigBoth
    Reload = FALSE
SYMMETRY MCSymmetry
INVARIANTS TypeOK SealedUnderItsLabel
PROPERTIES OnlyCreateReplaces RotateIsCompareAndSwap RestoreHonoursRevocation ImplementsRegister
