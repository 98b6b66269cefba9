SPECIFICATION FairSpec
CONSTANTS
    r1 = r1
    r2 = r2
    e1 = e1
    e2 = e2
    b1 = b1
    b2 = b2
    Clients = {"nats", "amqp", "simple"}
    Requests = {r1, r2}
    Events = {e1, e2}
    Broadcasts = {b1, b2}
    Garbled = {e2, b2}
    Traffics <- SomeTraffics
    Outcomes <- SomeOutcomes
    Instances = {i1, i2}
    NoMessage = NoMessage
    NoResult = NoResult
    NoAnswer = NoAnswer
    MaxCrashes = 1
    MaxDeliveries = 2
INVARIANTS
    TypeOK
    ExecutionsBounded
    GoneMeansSettled
PROPERTIES
    ImplementsRemoteCall
    QueuedEventsSettle
CHECK_DEADLOCK FALSE
