SPECIFICATION Spec
CONSTANTS
    Demos <- MCDemos
    CounterMod = 2
    Guards <- MCGuards
    Channels <- MCChannels
    Sleepers <- MCSleepers
    QueueSets <- SourceSets
    Streams <- SourceStreams
INVARIANTS
    NoErrorDetected
    InOrder
    WholeWhenFree
    SuspendedHoldNothing
PROPERTY NobodyStalls
