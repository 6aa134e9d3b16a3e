CONSTANTS
    Callers = {c1, c2}
    Reread = 1
    Window = 1
    Backoff = 0
    TokenLife = 2
    FileLife = 4
    Rotate = 2
    Prompt = TRUE
    Start = 3
    Horizon = 6
SPECIFICATION CredFairSpec
INVARIANTS  AssertionIsValid TokenIsLive
PROPERTY GetReturns
