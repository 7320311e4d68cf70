SPECIFICATION Spec
CONSTANTS
    TickMod = 16
    mainQUEUE_SEND_FREQUENCY_MS = 3
    MaxLag = 15
INVARIANTS
    TypeOK
    QueueEmptyAtSend
    EverySendToggles
    NeverEarly
PROPERTY LedKeepsToggling
