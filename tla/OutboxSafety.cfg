SPECIFICATION Spec
CONSTANTS
    e1 = e1
    e2 = e2
    c1 = c1
    Events = {e1, e2}
    Workers = {w1, w2}
    Tokens = {k1, k2, k3}
    Connectors = {c1}
    ConnectorOf <- TwoChannelEvents
    Notifications = {e2}
    NoToken = NoToken
    NoConnector = NoConnector
    NoEvent = NoEvent
    NoWorker = NoWorker
    MaxAttempts = 2
    BatchLimit = 2
    MaxEmits = 2
    MaxFaults = 1
SYMMETRY Symmetry
INVARIANTS PoisonedAtLimit DeliveredWasSent SendsAccountedFor
PROPERTIES OutcomeIsFinal ImplementsAtLeastOnce
CHECK_DEADLOCK FALSE
