SPECIFICATION MCSpec
CONSTANTS
    Types = {signal, warning}
    EnabledTypes = {signal}
    RetryAttempts = 3
    MaxChunks = 3
    Failures <- SpokenFailures
    MaxMessages = 2
    WindowMs = 4
    MaxTime = 5
    MaxSlack = 1
    MaxLen = 4
    MaxText = 10
INVARIANTS
    InOrder
    SentIsDelivered
    WindowLimit
    RefusalHasCause
    SplitSound
PROPERTIES
    CallEnds
    Progress
