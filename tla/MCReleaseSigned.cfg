CONSTANTS
    p1 = p1
    p2 = p2
    c1 = c1
    c2 = c2
    k1 = k1
    k2 = k2
    Procs = {p1, p2}
    Contents = {c1, c2}
    SigningKeys = {k1, k2}
    NoKey = NoKey
    None = None
SPECIFICATION Spec
SYMMETRY Symmetry
CONSTRAINT NotAllReleased
INVARIANTS
    UnsignedStaysUnsigned
    ReleasedAsAsked
