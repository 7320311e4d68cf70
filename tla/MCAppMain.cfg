SPECIFICATION Spec
CONSTANTS
    MaxHeap = 60
    Size <- SizeInUnits
    APP_PROGRAM_NETWORK = 1
    Width = 8
    Shift = 4
    OutBits = 3
    HardwareNumbers = {0, 77, 255}
INVARIANTS
    TypeOK
    BlinkyComplete
    Uniform
PROPERTY EnoughHeapStartsAll
\* The network stack may stop drawing numbers.
CHECK_DEADLOCK FALSE
