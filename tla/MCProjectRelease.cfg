CONSTANTS
    p1 = p1
    p2 = p2
    dir = dir
    Procs = {p1, p2}
    Kinds = {"react", "cordova", "nativescript"}
    Ranges = {"none", "invalid"}
    OutputDirs = {dir}
    Tmp = "Tmp"
    Platforms = "Platforms"
    None = None
SPECIFICATION Spec
INVARIANTS
    TypeOK
    ReleasesOwnBuild
    OnlyValidTargets
    OutputDisposed
PROPERTY
    OldFilesKept
