------------------------------- MODULE Blinky -------------------------------
(***************************************************************************)
(* src/app-task-blinky.c: the Tx task sends 100 to a queue of length one   *)
(* once per period, the Rx task, of higher priority, receives it and       *)
(* toggles the LED.  Time is the tick count, which wraps; everything of    *)
(* higher priority (network tasks, timer service, interrupts) is one actor *)
(* that takes the processor away for a while.                              *)
(***************************************************************************)
EXTENDS Integers, Sequences

CONSTANTS
    TickMod,                     \* 2^32: configUSE_16_BIT_TICKS is 0
    mainQUEUE_SEND_FREQUENCY_MS, \* the period, in ticks
    MaxLag                       \* bound: how late Tx may be, in ticks

ASSUME TicksAssumption ==
    /\ mainQUEUE_SEND_FREQUENCY_MS \in Nat \ {0}
    /\ MaxLag \in Nat /\ TickMod \in Nat
    /\ MaxLag < TickMod
    /\ mainQUEUE_SEND_FREQUENCY_MS < TickMod

mainQUEUE_LENGTH == 1
mainQUEUE_SEND_TASK_PRIORITY == 1

ReceivePriorityTooLow == 0

mainQUEUE_RECEIVE_TASK_PRIORITY == 2

VARIABLES
    setup,            \* vSetupBlinkyTask: "pending", "done" or "halted"
    tick,             \* the kernel's tick count
    busy,             \* work of higher priority has the processor
    pcTx, pcRx,       \* where the two tasks stand
    xNextWakeTime,    \* the Tx task's local variable
    xQueue,           \* the values in the queue
    ulReceivedValue,  \* the Rx task's local variable
    led,              \* LED1
    age,              \* history: ticks since xNextWakeTime, < 0 when it is ahead
    missing           \* history: sends minus toggles

vars == <<setup, tick, busy, pcTx, pcRx, xNextWakeTime, xQueue,
          ulReceivedValue, led, age, missing>>

ulValueToSend == 100

ExpectedValueWrong == 200

ulExpectedValue == 100
------------------------------------------------------------------------------
\* What is taken from the kernel, which is configured by inc/FreeRTOSConfig.h:
\* preemptive, fixed priorities, time slicing among equal priorities.

\* The processor is given to a ready task of the highest priority; which one of
\* several, and for how long, is left open.
Dispatched(t, ready, priority) ==
    t \in ready /\ \A u \in ready : priority[u] <= priority[t]

\* Tick counts are of an unsigned type that wraps after turn values; a delay
\* shorter than a turn is added with at most one wrap.
AddTicks(start, delay, turn) ==
    IF start + delay < turn THEN start + delay ELSE start + delay - turn

\* vTaskDelayUntil: must a task that last woke at previous, and is to wake at
\* wake, block at the time now?  Both times may have wrapped since previous.
MustDelay(previous, wake, now) ==
    IF now < previous THEN wake < previous /\ wake > now
                      ELSE wake < previous \/ wake > now
------------------------------------------------------------------------------
Priority == [Tx |-> mainQUEUE_SEND_TASK_PRIORITY,
             Rx |-> mainQUEUE_RECEIVE_TASK_PRIORITY]

Ready == {t \in {"Tx", "Rx"} :
            \/ t = "Tx" /\ pcTx \in {"start", "delay", "send"}
            \/ t = "Rx" /\ pcRx = "receive" /\ xQueue # <<>>
            \/ t = "Rx" /\ pcRx = "check"}

Runs(t) == ~busy /\ Dispatched(t, Ready, Priority)

\* Runs in main(), before the scheduler: without a queue it loops for ever.
Setup ==
    /\ setup = "pending"
    /\ \/ setup' = "done" /\ pcTx' = "start" /\ pcRx' = "receive"
       \/ setup' = "halted" /\ UNCHANGED <<pcTx, pcRx>>
    /\ UNCHANGED <<tick, busy, xNextWakeTime, xQueue, ulReceivedValue, led,
                   age, missing>>

Halted == setup = "halted" /\ UNCHANGED vars

\* The tick interrupt; it readies the Tx task when its wake time comes.
Tick ==
    /\ setup = "done"
    /\ pcTx # "start" => age < MaxLag
    /\ tick' = AddTicks(tick, 1, TickMod)
    /\ age' = IF pcTx = "start" THEN age ELSE age + 1
    /\ pcTx' = IF pcTx = "blocked" /\ tick' = xNextWakeTime THEN "send" ELSE pcTx
    /\ UNCHANGED <<setup, busy, pcRx, xNextWakeTime, xQueue, ulReceivedValue,
                   led, missing>>

\* Work of higher priority takes the processor, or gives it back.
Others ==
    /\ setup = "done"
    /\ busy' = ~busy
    /\ UNCHANGED <<setup, tick, pcTx, pcRx, xNextWakeTime, xQueue,
                   ulReceivedValue, led, age, missing>>
------------------------------------------------------------------------------
(* prvQueueSendTask *)

TxStartUninitialised ==
    /\ Runs("Tx") /\ pcTx = "start"
    /\ age' = 0
    /\ pcTx' = "delay"
    /\ UNCHANGED <<setup, tick, busy, pcRx, xNextWakeTime, xQueue,
                   ulReceivedValue, led, missing>>

TxStart ==
    /\ Runs("Tx") /\ pcTx = "start"
    /\ xNextWakeTime' = tick
    /\ age' = 0
    /\ pcTx' = "delay"
    /\ UNCHANGED <<setup, tick, busy, pcRx, xQueue, ulReceivedValue, led,
                   missing>>

\* vTaskDelayUntil: it moves xNextWakeTime on by one period and blocks only if
\* that time is still to come.
TxDelay ==
    LET wake == AddTicks(xNextWakeTime, mainQUEUE_SEND_FREQUENCY_MS, TickMod)
    IN  /\ Runs("Tx") /\ pcTx = "delay"
        /\ xNextWakeTime' = wake
        /\ age' = age - mainQUEUE_SEND_FREQUENCY_MS
        /\ pcTx' = IF MustDelay(xNextWakeTime, wake, tick) THEN "blocked" ELSE "send"
        /\ UNCHANGED <<setup, tick, busy, pcRx, xQueue, ulReceivedValue, led,
                       missing>>

\* xQueueSend with block time 0: into a full queue it fails, unnoticed.
TxSend ==
    /\ Runs("Tx") /\ pcTx = "send"
    /\ xQueue' = IF Len(xQueue) < mainQUEUE_LENGTH
                 THEN Append(xQueue, ulValueToSend) ELSE xQueue
    /\ missing' = missing + 1
    /\ pcTx' = "delay"
    /\ UNCHANGED <<setup, tick, busy, pcRx, xNextWakeTime, ulReceivedValue,
                   led, age>>
------------------------------------------------------------------------------
(* prvQueueReceiveTask *)

RxReceivePeeks ==
    /\ Runs("Rx") /\ pcRx = "receive"
    /\ ulReceivedValue' = Head(xQueue)
    /\ pcRx' = "check"
    /\ UNCHANGED <<setup, tick, busy, pcTx, xNextWakeTime, xQueue, led, age,
                   missing>>

RxReceive ==
    /\ Runs("Rx") /\ pcRx = "receive"
    /\ ulReceivedValue' = Head(xQueue)
    /\ xQueue' = Tail(xQueue)
    /\ pcRx' = "check"
    /\ UNCHANGED <<setup, tick, busy, pcTx, xNextWakeTime, led, age, missing>>

RxCheckSwitchesOn ==
    /\ Runs("Rx") /\ pcRx = "check"
    /\ IF ulReceivedValue = ulExpectedValue
       THEN led' = TRUE /\ ulReceivedValue' = 0 /\ missing' = missing - 1
       ELSE UNCHANGED <<led, ulReceivedValue, missing>>
    /\ pcRx' = "receive"
    /\ UNCHANGED <<setup, tick, busy, pcTx, xNextWakeTime, xQueue, age>>

RxCheck ==
    /\ Runs("Rx") /\ pcRx = "check"
    /\ IF ulReceivedValue = ulExpectedValue
       THEN led' = ~led /\ ulReceivedValue' = 0 /\ missing' = missing - 1
       ELSE UNCHANGED <<led, ulReceivedValue, missing>>
    /\ pcRx' = "receive"
    /\ UNCHANGED <<setup, tick, busy, pcTx, xNextWakeTime, xQueue, age>>
------------------------------------------------------------------------------
Init ==
    /\ setup = "pending"
    /\ tick = 0 /\ busy = FALSE
    /\ pcTx = "absent" /\ pcRx = "absent"
    /\ xNextWakeTime = 0
    /\ xQueue = <<>>
    /\ ulReceivedValue = 0
    /\ led = FALSE
    /\ age = 0 /\ missing = 0

Tx == TxStart \/ TxDelay \/ TxSend
Rx == RxReceive \/ RxCheck

Next == Setup \/ Halted \/ Tick \/ Others \/ Tx \/ Rx

\* The tick goes on, and the work of higher priority leaves both tasks some of
\* the processor again and again (strong fairness: it interrupts them often).
Fairness == WF_vars(Setup) /\ WF_vars(Tick) /\ WF_vars(Others /\ busy)
            /\ SF_vars(Tx) /\ SF_vars(Rx)

Spec == Init /\ [][Next]_vars /\ Fairness
------------------------------------------------------------------------------
\* The variables keep their ranges; the queue never holds more than its length.
TypeOK ==
    /\ setup \in {"pending", "done", "halted"}
    /\ tick \in 0 .. TickMod - 1
    /\ busy \in BOOLEAN
    /\ pcTx \in {"absent", "start", "delay", "blocked", "send"}
    /\ pcRx \in {"absent", "receive", "check"}
    /\ xNextWakeTime \in 0 .. TickMod - 1
    /\ xQueue \in {<<>>, <<ulValueToSend>>}
    /\ ulReceivedValue \in {0, ulValueToSend}
    /\ led \in BOOLEAN
    /\ age \in -mainQUEUE_SEND_FREQUENCY_MS .. MaxLag
    /\ missing \in Nat

\* "the queue should always be empty at this point in the code" (line 135): the
\* send, which does not wait and whose result is ignored, never meets a full
\* queue, however late the two tasks run.
QueueEmptyAtSend == pcTx = "send" /\ Runs("Tx") => xQueue = <<>>

\* Each value sent is received once and toggles the LED once: the sends that no
\* toggle answers yet are the value in the queue and the value being checked.
EverySendToggles ==
    missing = Len(xQueue) + (IF pcRx = "check" THEN 1 ELSE 0)

\* "repeatedly block for 200 milliseconds before sending": no send before its
\* wake time, across any wrap of the tick count, and a late task catches up.
NeverEarly ==
    /\ pcTx \in {"delay", "send"} => age >= 0
    /\ pcTx = "blocked" => age < 0

\* "therefore toggles the LED every 200 milliseconds": once set up, the LED
\* never stops changing.
LedKeepsToggling ==
    \A b \in BOOLEAN : setup = "done" /\ led = b ~> led # b
==============================================================================
