SPECIFICATION MCSpec
CONSTANTS
    Types = {signal, warning}
    EnabledTypes = {signal, warning}
    RetryAttempts = 3
    MaxChunks = 3
    Failures <- SilentFailures
    MaxMessages = 1
    WindowMs = 2
    MaxTime = 4
    MaxSlack = 0
    MaxLen = 2
    MaxText = 3
INVARIANTS
    SentIsDelivered
