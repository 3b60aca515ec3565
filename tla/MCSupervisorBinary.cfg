SPECIFICATION Spec
CONSTANTS
    None = None
    Pid = {p1, p2}
    Version = {"v1", "v2", "dev"}
    Number <- Numbers
    Sound = {"v1", "dev"}
    Configs <- AllConfigs
    DiskFails = TRUE
    ProbeFails = TRUE
SYMMETRY Slots
INVARIANTS
    TypeOK
    BinaryNeverLost
PROPERTIES
    UpdateAllOrNothing
    ForwardOrPinned
