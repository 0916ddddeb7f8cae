SPECIFICATION Spec
CONSTANTS
ADA = ADA
BNB = BNB
SOL = SOL
Q = 4
MIN_CANDLES = 6
MIN_VR = 10
MAX_RUNS = 2
LOOKBACK = 2
Enough = 3
MIN_HISTORY = 3
MAX_HOLDING_HOURS = 3
LOW_FUNDING_CONSECUTIVE = 2
OneTimeCost = 4
CostsPerSettlement = 1
SYMBOLS = {ADA, BNB}
SYMBOL_MAP = {ADA, BNB}
LAST_HOUR = 4
MAX_CYCLES = 3
TOP_N = 2
PAGE = 2
HISTORY = 2
MAX_HOUR = 6
MAX_LOOPS = 3
None = None
LEFT_BARS = 1
RIGHT_BARS = 1
ATR_PERIOD = 2
SETTLE = 2
COOLDOWN = 1
REACTION = 2
IMPULSE = 3
LEVEL_WINDOW_H = 10
LEVEL_STEP_H = 2
ShortHold = 1
LongHold = 2
Spare = 1
MinHistory = 15
LookAheadWarmUp = 10
ANOMALY_LOOKBACK = 5
BARS_BEFORE_ENTRY = 2
BARS_AFTER_ENTRY = 1
Series <- SmallSeries
BooksV1 <- SmallBooksV1
BooksV2 <- SmallBooksV2
PaperInputs <- SmallInputs
Markets <- SmallMarkets
LaterMarkets <- SmallLaterMarkets
TickerLists <- SmallTickerLists
Exchanges <- SmallExchanges
INVARIANTS
    TradesSound
    ReportMatchesExits
    LevelsSound
    PicturesAreTrue
    MomentumSound
    PaperTradesSound
    FeesAreTheDifference
    PairsSound
    WhitelistWhole
    CollectedIsTrue
CHECK_DEADLOCK FALSE
