SPECIFICATION FairSpec
CONSTANTS
    public = public
    private = private
    meta = meta
    h1 = h1
    h2 = h2
    Host = {h1, h2}
    Address = {public, private, meta}
    AlwaysBlocked = {meta}
    Private = {private}
    Policies <- SomePolicies
    Answers <- SomeAnswers
    Names <- SomeNames
    RedirectLimits <- SomeLimits
    DefaultMaxRedirects = 2
    BodyCaps <- SomeCaps
    DefaultMaxBody = 2
    MaxInt = 4
    MaxLength = 3
INVARIANTS
    TypeOK
    EgressRespected
    ChainFaithful
    StopsWhereAsked
    ResentAsSpecified
    BodyWhole
PROPERTY ExecutionEnds
CHECK_DEADLOCK FALSE
