\* Two accounts and two custody refs, one account Init and one step in flight; a
\* custody with a key ref or without.
SPECIFICATION Spec
CONSTANTS
    None = None
    i1 = i1
    Inits = {i1}
    p1 = p1
    Procs = {p1}
    c1 = c1
    c2 = c2
    CustodyRefs = {c1, c2}
    a1 = a1
    a2 = a2
    Accounts = {a1, a2}
    k1 = k1
    Keys = {k1}
SYMMETRY MCSymmetry
INVARIANTS TypeOK KeptCustodyIsOwn
PROPERTIES AttestedCustodyIsOwn NoStaleKey
