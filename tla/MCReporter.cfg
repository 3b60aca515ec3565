SPECIFICATION FairSpec
CONSTANTS
    RetryAttempts = 4
    PublishTries = 2
    PostTries = 3
INVARIANTS
    TypeOK
    
    OversizedDiverted
PROPERTIES
    RefusalIsFinal
    RefinesDelivery
    ReportEnds
CHECK_DEADLOCK FALSE
