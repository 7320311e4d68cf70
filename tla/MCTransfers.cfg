SPECIFICATION Spec
CONSTANTS
    Demos <- MCDemos
    CounterMod = 2
    Guards <- SourceGuards
    Channels <- SourceChannels
    Sleepers <- SourceSleepers
    QueueSets <- MCSets
    Streams <- MCStreams
INVARIANTS
    NoErrorDetected
    AllReceived
    NothingLost
    SetMirrorsQueues
