SPECIFICATION Spec
CONSTANTS
    pollqQUEUE_SIZE = 10
    pollqVALUES_TO_PRODUCE = 3
    pollqPRODUCER_DELAY = 5
    pollqCONSUMER_DELAY = 4
    MaxLate = 5
    CheckPeriod = 30
    ValueMod = 11
INVARIANTS
    ProducerNeverFindsFull
    NothingLost
    CheckSucceeds
