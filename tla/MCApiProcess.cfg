SPECIFICATION FairSpec
CONSTANTS
    Conns = {c1, c2}
    EnvValues <- EnvBounds
    MaxRequests = 3
    PoolSize = 1
    Unset = Unset
    NotANumber = NotANumber
INVARIANTS TypeOK CleanExitDrains HandlersAreEquipped ProbesAreTrue
PROPERTIES SignalEndsProcess ProbesAreAnswered
