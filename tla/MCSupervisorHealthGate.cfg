SPECIFICATION Spec
CONSTANTS
    None = None
    Pid = {p1, p2, p3}
    Version = {"v1", "v2"}
    Number <- Numbers
    Sound = {"v1"}
    Configs <- UpdateConfigs
    DiskFails = FALSE
    ProbeFails = FALSE
SYMMETRY Slots
PROPERTY HealthGate
