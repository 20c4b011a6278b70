CONSTANTS
    Raw <- MCRaw
    Names <- MCNames
    Contents = {"x", "y"}
    Slash <- MCSlash
    Normalize <- MCNormalize
    Kind <- MCKind
    Metadata = ".appsyncrelease"
    Jwt = "jwt"
SPECIFICATION LiveSpec
INVARIANTS
    TypeOK
    SameHash
    ManifestIsWhole
    OneAtATime
PROPERTIES
    HashingSettles
CHECK_DEADLOCK FALSE
