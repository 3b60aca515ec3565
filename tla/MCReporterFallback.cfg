SPECIFICATION Spec
CONSTANTS
    RetryAttempts = 4
    PublishTries = 2
    PostTries = 3
INVARIANT GivenUpWhenExhausted
CHECK_DEADLOCK FALSE
