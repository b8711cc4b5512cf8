SPECIFICATION FairSpec
CONSTANTS
    e1 = e1
    e2 = e2
    c1 = c1
    Events = {e1, e2}
    Workers = {w1}
    Tokens = {k1, k2, k3}
    Connectors = {c1}
    ConnectorOf <- MixedEvents
    Notifications = {}
    NoToken = NoToken
    NoConnector = NoConnector
    NoEvent = NoEvent
    NoWorker = NoWorker
    MaxAttempts = 2
    BatchLimit = 2
    MaxEmits = 1
    MaxFaults = 1
PROPERTIES EventuallySettled
CHECK_DEADLOCK FALSE
