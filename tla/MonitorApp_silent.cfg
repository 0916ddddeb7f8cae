SPECIFICATION Spec
CONSTANTS
    None = None
    Instruments <- OneInstrument
    Readings <- AllReadings
    Faults <- NoFaults
    MinNetAnnual = 8
    MinNetHorizon = 2
    MinFundingRate = 1
    RequirePositiveFunding = TRUE
    RequirePredictedFunding = FALSE
    MinConfirmations = 2
    ConfirmationCap = 3
    CooldownSec = 2
    MsPerSec = 2
    MsPerMin = 1
    Hysteresis = 1
    MaxSnapshotAgeMs = 1
    QualityMaxAgeMs = 2
    MaxSpread = 1
    SuppressBeforeMin = 0
    SuppressAfterMin = 0
    RepeatAlertWhileActive = FALSE
    SendDataErrors = FALSE
    WarningCooldownMs = 2
    StartTime = 2
    MaxTime = 8
    MaxRestarts = 1
INVARIANTS
    AlertedWhenActive
