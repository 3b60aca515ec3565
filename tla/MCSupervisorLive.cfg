SPECIFICATION FairSpec
CONSTANTS
    None = None
    Pid = {p1, p2}
    Version = {"v1", "v2"}
    Number <- Numbers
    Sound = {"v1"}
    Configs <- AllConfigs
    DiskFails = FALSE
    ProbeFails = FALSE
INVARIANTS
    OneWorker
    SupervisedUnlessUpdating
PROPERTIES
    GracefulExit
    WorkerRestarted
    UpdateCycleEnds
