SPECIFICATION Spec
CONSTANTS
    Writer = {w1, w2}
    Main = main
    NoTask = none
    Nul = nul
    Junk = nul
    LOGGING_STREAM_BUFFER_SIZE = 6
    LOGGING_SEGMENT_SIZE = 4
    MAX_PRINT_STRING_LENGTH = 7
    RxSize = 3
    HeaderLength = 2
    BodyLengths = {0, 4}
    NumberMod = 2
    MaxCalls = 3
INVARIANT WritesEachByteOnce
