\* One lot, windows of two readings, two messages in a topic, two failures of any
\* kind.
SPECIFICATION FairTelemetry
CONSTANTS
    Nil = Nil
    Devices = {d1}
    W = 2
    Capacity <- MCCapacity
    Threshold = 5
    TopicBound = 2
    MaxFaults = 2
INVARIANTS
    LastingAlertSound
    LastingAlertExact
    WindowBounded
    NoReadingRejected
    DrainedViewsAgree
PROPERTY LastingAlertRecurs
