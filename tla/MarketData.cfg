SPECIFICATION MCSpec
CONSTANTS
    None = None
    Junk = Junk
    DataError = DataError
    RequestError = RequestError
    ValueError = ValueError
    SecondsLimit = 100
    MsPerSecond = 10
    Tasks = {t1, t2}
    Symbols = {"BTC", "ETH", "NEW"}
    Listed = {"BTC", "ETH"}
    MarketInterval <- ClientMarkets
    Attempts = 2
    Quotes <- ClientQuotes
    FundingPayloads <- ClientPayloads
    FundingInfos <- ClientInfos
    DefaultInterval = 28800
    Instants = {10, 20, 99}
    Received = 205
    Rates = {None, Junk, 0, 1}
    Positions <- SmallPositions
    HoursPerYear = 12
    FullHaircut = 2
    Pools <- SmallPools
    Params <- SmallParams
    AlertIds = {1}
    Statuses = {"sent", "failed"}
    Rankings <- Refreshes
    Retention = 1
    MaxTime = 2
    MaxCalls = 3
INVARIANTS
    RequestsHaveMarkets
    IntervalSettled
    ReadAsGiven
    YieldSound
    SelectionSound
    SavedIsDurable
    PoolOfOneRefresh
    RecentAlertFound
PROPERTIES
    LoadOnce
    CallEnds
CHECK_DEADLOCK FALSE
