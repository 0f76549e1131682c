\* Two custody refs, modules configured for each with different owners, and two
\* Inits in flight, with crashes and failed writes.
SPECIFICATION Spec
CONSTANTS
    None = None
    Torn = Torn
    i1 = i1
    i2 = i2
    Inits = {i1, i2}
    c1 = c1
    c2 = c2
    CustodyRefs = {c1, c2}
    own1 = own1
    own2 = own2
    Owners = {own1, own2}
    s1 = s1
    s2 = s2
    s3 = s3
    Seeds = {s1, s2, s3}
SYMMETRY MCSymmetry
INVARIANTS TypeOK SeedIsForever SeedIsOnDisk RegistriesAgree
