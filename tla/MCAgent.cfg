SPECIFICATION FairSpec
CONSTANTS
    None = None
    Command = {c1, c2}
    Token = {t1, t2}
    Responses <- SomeResponses
    Callback = {g1, g2}
INVARIANTS
    TypeOK
    SavedConfigUsable
    SpeaksAsRegistered
PROPERTY HeartbeatsContinue
CHECK_DEADLOCK FALSE
