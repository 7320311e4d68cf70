------------------------------- MODULE PollQ -------------------------------
(***************************************************************************)
(* demo-common/minimal/PollQ.c: a producer posts three numbers, sleeps and *)
(* posts again; a consumer empties the queue, sleeps a little less and     *)
(* looks again.  Neither ever waits for the queue: that it is never found  *)
(* full is a matter of time alone.                                         *)
(*                                                                         *)
(* Both tasks have the same priority, so either may run.  MaxLate is what  *)
(* the rest of the program leaves them: a task that wakes sleeps again     *)
(* within MaxLate ticks.                                                   *)
(***************************************************************************)
EXTENDS Naturals, Sequences

CONSTANTS
    pollqQUEUE_SIZE, pollqVALUES_TO_PRODUCE,
    pollqPRODUCER_DELAY, pollqCONSUMER_DELAY,
    MaxLate,
    CheckPeriod,    \* ticks between two calls of the check function
    ValueMod        \* 2^16 for the uint16_t values

ASSUME ParametersAssumption ==
    /\ {pollqQUEUE_SIZE, pollqVALUES_TO_PRODUCE, pollqPRODUCER_DELAY,
        pollqCONSUMER_DELAY, MaxLate, CheckPeriod} \subseteq Nat \ {0}
    /\ ValueMod \in Nat /\ ValueMod > pollqQUEUE_SIZE

\* The consumer looks again before the producer has slept a third time, and the queue
\* has room for what is posted meanwhile; a check comes after both have had a turn.
ASSUME DelaysAssumption ==
    /\ pollqCONSUMER_DELAY + 2 * MaxLate < 3 * pollqPRODUCER_DELAY
    /\ 3 * pollqVALUES_TO_PRODUCE <= pollqQUEUE_SIZE
    /\ pollqPRODUCER_DELAY + pollqCONSUMER_DELAY + 4 * MaxLate < CheckPeriod

VARIABLES
    pcProducer, pcConsumer,
    producerTicks,   \* ticks left to sleep, or since the wake-up
    consumerTicks,
    xPolledQueue,
    xLoop, usValue,            \* the producer's local variables
    usData, usExpectedValue,   \* the consumer's
    xError,                    \* of each task
    xPollingProducerCount,     \* the check variables: have they left
    xPollingConsumerCount,     \* pollqINITIAL_VALUE?
    sinceCheck,                \* ticks since the last check
    xReturn                    \* what the last check returned

producer == <<pcProducer, producerTicks, xLoop, usValue>>
consumer == <<pcConsumer, consumerTicks, usData, usExpectedValue>>
counts   == <<xPollingProducerCount, xPollingConsumerCount>>
check    == <<sinceCheck, xReturn>>
vars == <<producer, consumer, xPolledQueue, xError, counts, check>>

Next1(n) == (n + 1) % ValueMod
------------------------------------------------------------------------------
(* vPolledQueueProducer *)

\* xQueueSend without a block time.  A value that does not fit is sent again.
Send ==
    IF Len(xPolledQueue) < pollqQUEUE_SIZE
    THEN /\ xPolledQueue' = Append(xPolledQueue, usValue)
         /\ usValue' = Next1(usValue)
         /\ xPollingProducerCount' = (xPollingProducerCount \/ ~xError.producer)
         /\ UNCHANGED xError
    ELSE /\ xError' = [xError EXCEPT !.producer = TRUE]
         /\ UNCHANGED <<xPolledQueue, usValue, xPollingProducerCount>>

Produce ==
    /\ pcProducer = "produce" /\ xLoop < pollqVALUES_TO_PRODUCE
    /\ Send
    /\ xLoop' = xLoop + 1
    /\ UNCHANGED <<pcProducer, producerTicks, consumer, xPollingConsumerCount, check>>

ProducerNoSleep ==
    /\ pcProducer = "produce" /\ xLoop = pollqVALUES_TO_PRODUCE
    /\ xLoop' = 0
    /\ UNCHANGED <<pcProducer, producerTicks, usValue, consumer, xPolledQueue,
                   xError, counts, check>>

ProducerSleeps ==
    /\ pcProducer = "produce" /\ xLoop = pollqVALUES_TO_PRODUCE
    /\ pcProducer' = "delay"
    /\ producerTicks' = pollqPRODUCER_DELAY
    /\ xLoop' = 0
    /\ UNCHANGED <<usValue, consumer, xPolledQueue, xError, counts, check>>
------------------------------------------------------------------------------
(* vPolledQueueConsumer *)

ReceivePeeks ==
    /\ pcConsumer = "consume" /\ xPolledQueue # <<>>
    /\ pcConsumer' = "compare"
    /\ usData' = Head(xPolledQueue)
    /\ UNCHANGED <<producer, consumerTicks, usExpectedValue, xPolledQueue, xError,
                   counts, check>>

\* uxQueueMessagesWaiting and, when there is something, xQueueReceive; the
\* producer may run between the two, but can only add to the queue.
Receive ==
    /\ pcConsumer = "consume" /\ xPolledQueue # <<>>
    /\ pcConsumer' = "compare"
    /\ usData' = Head(xPolledQueue)
    /\ xPolledQueue' = Tail(xPolledQueue)
    /\ UNCHANGED <<producer, consumerTicks, usExpectedValue, xError, counts, check>>

Compare ==
    /\ pcConsumer = "compare"
    /\ pcConsumer' = "consume"
    /\ usExpectedValue' = Next1(usData)
    /\ IF usData = usExpectedValue
       THEN /\ xPollingConsumerCount' = (xPollingConsumerCount \/ ~xError.consumer)
            /\ UNCHANGED xError
       ELSE /\ xError' = [xError EXCEPT !.consumer = TRUE]
            /\ UNCHANGED xPollingConsumerCount
    /\ UNCHANGED <<producer, consumerTicks, usData, xPolledQueue,
                   xPollingProducerCount, check>>

\* The queue was found empty; the producer may fill it before the consumer sleeps.
FoundEmpty ==
    /\ pcConsumer = "consume" /\ xPolledQueue = <<>>
    /\ pcConsumer' = "foundEmpty"
    /\ UNCHANGED <<producer, consumerTicks, usData, usExpectedValue, xPolledQueue,
                   xError, counts, check>>

ConsumerSleeps ==
    /\ pcConsumer = "foundEmpty"
    /\ pcConsumer' = "delay"
    /\ consumerTicks' = pollqCONSUMER_DELAY
    /\ UNCHANGED <<producer, usData, usExpectedValue, xPolledQueue, xError,
                   counts, check>>
------------------------------------------------------------------------------
\* The tick interrupt wakes a task when its delay is over.  A task that is awake
\* sleeps again before MaxLate ticks have passed.
TickOf(pc, ticks) == IF pc = "delay" THEN ticks - 1 ELSE ticks + 1
Woken(pc, ticks, awake) == IF pc = "delay" /\ ticks = 1 THEN awake ELSE pc

Tick ==
    /\ pcProducer # "delay" => producerTicks < MaxLate
    /\ pcConsumer # "delay" => consumerTicks < MaxLate
    /\ sinceCheck < CheckPeriod
    /\ pcProducer' = Woken(pcProducer, producerTicks, "produce")
    /\ pcConsumer' = Woken(pcConsumer, consumerTicks, "consume")
    /\ producerTicks' = TickOf(pcProducer, producerTicks)
    /\ consumerTicks' = TickOf(pcConsumer, consumerTicks)
    /\ sinceCheck' = sinceCheck + 1
    /\ UNCHANGED <<xLoop, usValue, usData, usExpectedValue, xPolledQueue, xError,
                   counts, xReturn>>

CheckAfterReset ==
    /\ sinceCheck = CheckPeriod
    /\ xPollingConsumerCount' = FALSE /\ xPollingProducerCount' = FALSE
    /\ xReturn' = (xPollingConsumerCount' /\ xPollingProducerCount')
    /\ sinceCheck' = 0
    /\ UNCHANGED <<producer, consumer, xPolledQueue, xError>>

\* Called by a task of higher priority, so nothing comes between its steps.
xArePollingQueuesStillRunning ==
    /\ sinceCheck = CheckPeriod
    /\ xReturn' = (xPollingConsumerCount /\ xPollingProducerCount)
    /\ xPollingConsumerCount' = FALSE /\ xPollingProducerCount' = FALSE
    /\ sinceCheck' = 0
    /\ UNCHANGED <<producer, consumer, xPolledQueue, xError>>
------------------------------------------------------------------------------
Init ==
    /\ pcProducer = "produce" /\ pcConsumer = "consume"
    /\ producerTicks = 0 /\ consumerTicks = 0
    /\ xPolledQueue = <<>>
    /\ xLoop = 0 /\ usValue = 0 /\ usData = 0 /\ usExpectedValue = 0
    /\ xError = [producer |-> FALSE, consumer |-> FALSE]
    /\ xPollingProducerCount = FALSE /\ xPollingConsumerCount = FALSE
    /\ sinceCheck = 0 /\ xReturn = TRUE

Producer == Produce \/ ProducerSleeps
Consumer == Receive \/ Compare \/ FoundEmpty \/ ConsumerSleeps

Next == Producer \/ Consumer \/ Tick \/ xArePollingQueuesStillRunning

Spec == Init /\ [][Next]_vars
------------------------------------------------------------------------------
\* "We should never find the queue full" (line 125): the consumer's delay, the
\* time it may be late twice and the producer's delay leave room for every value.
ProducerNeverFindsFull == ~xError.producer

\* The consumer gets every number once and in order, also if a send failed: the
\* values on their way are consecutive and end with the last one posted.
NothingLost ==
    /\ ~xError.consumer
    /\ usValue = (usExpectedValue + Len(xPolledQueue)
                    + IF pcConsumer = "compare" THEN 1 ELSE 0) % ValueMod

\* A check that is called as rarely as CheckPeriod says finds both tasks alive:
\* no false alarm while the tasks keep their time.
CheckSucceeds == xReturn
==============================================================================
