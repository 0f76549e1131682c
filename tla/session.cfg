\* Two identities, one of them initialised twice, and two steps in flight.
SPECIFICATION Spec
CONSTANTS
    None = None
    p1 = p1
    p2 = p2
    Procs = {p1, p2}
    Ids = {"alice", "bob"}
    a1 = a1
    b1 = b1
    b2 = b2
    Objects <- MCObjects
    Of <- MCOf
    x1 = x1
    x2 = x2
    Bases = {x1, x2}
    Links <- MCLinks
    MaxSent = 2
VIEW MCView
SYMMETRY MCSymmetry
INVARIANTS TypeOK
PROPERTIES PreKeyMessagesOpen EncryptsForItsBundle OnlyItsOwnMessagesOpen
