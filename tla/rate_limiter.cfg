SPECIFICATION LimiterSpec
CONSTANTS
    login = login
    refresh = refresh
    Keys = {login, refresh}
    Limit <- Limits
    Window <- Windows
    Second = 2
    LastTick = 10
INVARIANTS
    NeverMoreThanLimit
    RetryIsHonest
