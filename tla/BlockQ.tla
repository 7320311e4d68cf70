------------------------------- MODULE BlockQ -------------------------------
(***************************************************************************)
(* demo-common/minimal/BlockQ.c: a producer posts 0, 1, 2, ... to a queue  *)
(* and a consumer expects the same numbers in the same order.  There are   *)
(* three such sets, which differ in the length of the queue, in which of   *)
(* the two tasks has the higher priority and in which of them waits for    *)
(* the queue.  They share nothing, so each is a program of its own.        *)
(***************************************************************************)
EXTENDS RtosKernel, Program

CONSTANTS
    uxPriority,      \* the priority that the demo is started with
    ValueMod         \* bound: 2^16 for the uint16_t values; more than the longest queue + 1

tskIDLE_PRIORITY == 0
xBlockTime == 1000
xDontBlock == 0

Value1(var) == Modulo(Add(var, 1), ValueMod)
\* The check variable of a task counts as long as the task has met no error.
Good(sError, check) == If(Read(sError), {0}, << Add(check, 1) >>)

ProducerSkipsValue(priority, block, starved) ==
    LET send == From(Within(SendToBack("xQueue", 0), block), "usValue")
    IN  Task(priority,
             IfElse(IF starved THEN send ELSE Passes(send), {Pass},
                    Good("sProducerError", "sBlockingProducerCount"), << Set("sProducerError", 1) >>)
             \o << Value1("usValue") >>)

\* A producer that waits has no error as long as the consumer is not starved for a whole
\* block time.  A send that fails leaves usValue as it is, to be sent again.
vBlockingQueueProducer(priority, block, starved) ==
    LET send == From(Within(SendToBack("xQueue", 0), block), "usValue")
    IN  Task(priority,
             IfElse(IF starved THEN send ELSE Passes(send), {Pass},
                    Good("sProducerError", "sBlockingProducerCount") \o << Value1("usValue") >>,
                    << Set("sProducerError", 1) >>))

vBlockingQueueConsumer(priority, block) ==
    Task(priority,
         If(Into(Within(Receive("xQueue"), block), "usData"), 0 .. ValueMod - 1,
            IfElse(Same("usData", "usExpectedValue"), {0},
                   Good("sConsumerError", "sBlockingConsumerCount") \o << Value1("usExpectedValue") >>,
                   << From(Set("usExpectedValue", 0), "usData"), Set("sConsumerError", 1) >>)))

xAreBlockingQueuesStillRunning == <<"sBlockingProducerCount", "sBlockingConsumerCount">>

Producer == 1
Consumer == 2

\* starved: the tasks of this set may be kept from the processor for any time.  In the
\* first set that does no harm: "as soon as it posts the consumer will wake and remove the
\* item" (line 126), so the producer, which does not wait, never meets a full queue.
BlockingSet(uxQueueSize, producer, consumer, starved) ==
    Prompt(Demo(<< producer, consumer >>, [xQueue |-> Queue(uxQueueSize)],
                Zero({"usValue", "usData", "usExpectedValue", "sProducerError", "sConsumerError"}
                     \cup Range(xAreBlockingQueuesStillRunning)),
                IF starved THEN <<>> ELSE xAreBlockingQueuesStillRunning),
           IF starved THEN {5} ELSE {0})

vStartBlockingQueueTasks(starved) == <<
    Prompt(BlockingSet(1, vBlockingQueueProducer(tskIDLE_PRIORITY, xDontBlock, FALSE),
                          vBlockingQueueConsumer(uxPriority, xBlockTime), starved), {0, 5}),
    BlockingSet(1, vBlockingQueueProducer(uxPriority, xBlockTime, starved),
                   vBlockingQueueConsumer(tskIDLE_PRIORITY, xDontBlock), starved),
    BlockingSet(5, vBlockingQueueProducer(tskIDLE_PRIORITY, xBlockTime, starved),
                   vBlockingQueueConsumer(tskIDLE_PRIORITY, xBlockTime), starved) >>
-----------------------------------------------------------------------------
\* The outline (module Outlines) of a set: when a number is posted and received but not
\* counted on.  The jumps are no calls, and the consumer never finds a wrong number.
Outline(set) ==
    [program |-> set, o |-> "xQueue", producer |-> Producer, consumer |-> Consumer,
     next |-> "usValue", data |-> "usData", expected |-> "usExpectedValue",
     modulus |-> ValueMod, posted |-> 2 .. 4, received |-> 2 .. 5,
     live |-> << {1, 2, 3, 4, 6}, 1 .. 5 >>]

Outlines ==
    {Outline(vStartBlockingQueueTasks(starved)[i]) : starved \in BOOLEAN, i \in 1 .. 3}
=============================================================================
