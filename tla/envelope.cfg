\* Outbox and inbox of one store, of either backend: failed writes, crashes,
\* restarts, each under a limit of one or of two; two messages and two refs.  All
\* requests carry one time, so retention may remove any record of a queue.
SPECIFICATION Spec
CONSTANTS
    None = None
    Torn = Torn
    p1 = p1
    p2 = p2
    Procs = {p1, p2}
    o1 = o1
    o2 = o2
    Objects = {o1}
    Ids = {"x", "x/y"}
    Refs = {"x", "x-y"}
    Sanitize <- MCSanitize
    InboxRefs = {"x"}
    m = m
    n = n
    Msgs = {m, n}
    Times = {1}
    Limits = {1, 2}
    Backends = {"memory", "local_file"}
    Reload = FALSE
VIEW MCView
SYMMETRY MCSymmetry
INVARIANTS TypeOK ClaimedAtMostOncePerEnqueue AcknowledgedIsOnDisk FileIsWhole
PROPERTIES RetentionHolds ImplementsQueue
