CONSTANTS
    c1 = c1
    c2 = c2
    m1 = m1
    m2 = m2
    v1 = v1
    v2 = v2
    Calls = {c1, c2}
    Metadata = {m1, m2}
    Versions = {v1, v2}
    Slashes = {0, 2}
    None = None
SPECIFICATION Spec
INVARIANTS
    TypeOK
    ToldTheTruth
    OverMeansTold
    MetadataAsAsked
PROPERTY
    SentIsTold
CHECK_DEADLOCK FALSE
