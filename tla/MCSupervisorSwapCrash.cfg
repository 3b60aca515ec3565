SPECIFICATION Spec
CONSTANTS
    None = None
    Pid = {p1, p2}
    Version = {"v1", "v2"}
    Number <- Numbers
    Sound = {"v1", "v2"}
    Configs <- UpdateConfigs
    DiskFails = FALSE
    ProbeFails = FALSE
SYMMETRY Slots
INVARIANT InstalledAtStart
