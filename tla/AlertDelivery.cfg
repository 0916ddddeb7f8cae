SPECIFICATION DeliverySpec
CONSTANTS
    None = None
    Instruments <- OneInstrument
    Readings <- GoodReadings
    Faults <- SendFaults
    MinNetAnnual = 8
    MinNetHorizon = 2
    MinFundingRate = 1
    RequirePositiveFunding = TRUE
    RequirePredictedFunding = FALSE
    MinConfirmations = 2
    ConfirmationCap = 3
    CooldownSec = 1
    MsPerSec = 2
    MsPerMin = 1
    Hysteresis = 1
    MaxSnapshotAgeMs = 9
    QualityMaxAgeMs = 9
    MaxSpread = 1
    SuppressBeforeMin = 0
    SuppressAfterMin = 0
    RepeatAlertWhileActive = FALSE
    SendDataErrors = FALSE
    WarningCooldownMs = 2
    StartTime = 2
    MaxTime = 9
    MaxRestarts = 0
    MaxMessages = 2
    WindowMs = 4
INVARIANTS
    FailedAlertDelivered
