------------------------------- MODULE Logging -------------------------------
(***************************************************************************)
(* src/app-task-logging.c: vLoggingPrintf, called by every task of the     *)
(* application, and vLoggingTask, the one task that empties the stream     *)
(* buffer into the UART.                                                   *)
(*                                                                         *)
(* A caller formats its item on its own stack, takes xLoggingSemaphore     *)
(* (with a time-out and a retry), polls until the item fits the stream     *)
(* buffer, sends it and gives the mutex back.  Before the scheduler runs,  *)
(* main() is the only caller and writes to the UART directly.              *)
(*                                                                         *)
(* One action is one stretch of code between two points where the kernel   *)
(* may switch tasks and another task could tell the difference.  The       *)
(* stream buffer publishes its head index at the end of a send and its     *)
(* tail index at the end of a receive, so each of the two is one action.   *)
(***************************************************************************)
EXTENDS Naturals, Sequences, FiniteSets

CONSTANTS
    Writer,                     \* the tasks that call vLoggingPrintf
    Main,                       \* main(), before vTaskStartScheduler
    NoTask,                     \* "the mutex is free"
    Nul, Junk,                  \* the byte 0, and any other byte of the heap
    LOGGING_STREAM_BUFFER_SIZE,
    LOGGING_SEGMENT_SIZE,       \* trigger level, and size of ucRxData
    MAX_PRINT_STRING_LENGTH,
    RxSize,                     \* sizeof( ucRxData ): the size of a pointer
    HeaderLength,               \* length of "<number> <tick> [<task>] "
    BodyLengths,                \* lengths of the formatted bodies
    NumberMod,                  \* 2^32 for the unsigned long xMessageNumber
    MaxCalls                    \* bound: calls of vLoggingPrintf in all

Callers == Writer \cup {Main}

ASSUME CallersAssumption ==
    /\ Main \notin Writer
    /\ NoTask \notin Callers

\* The relations between the sizes of lines 25-27: an item always fits the
\* empty stream buffer, a read never overruns ucRxData, and the shortest item,
\* an empty body between its header and "\r\n", reaches the trigger level.
ASSUME SizesAssumption ==
    /\ LOGGING_STREAM_BUFFER_SIZE \in Nat
    /\ MAX_PRINT_STRING_LENGTH \in Nat \ {0}
    /\ RxSize \in Nat \ {0}
    /\ LOGGING_SEGMENT_SIZE \in Nat
    /\ HeaderLength \in Nat
    /\ BodyLengths \subseteq Nat /\ BodyLengths # {}
    /\ MAX_PRINT_STRING_LENGTH - 1 <= LOGGING_STREAM_BUFFER_SIZE
    /\ RxSize <= LOGGING_SEGMENT_SIZE
    /\ LOGGING_SEGMENT_SIZE <= HeaderLength + 2
    /\ LOGGING_SEGMENT_SIZE <= MAX_PRINT_STRING_LENGTH - 1

ASSUME NumbersAssumption == NumberMod \in Nat \ {0} /\ MaxCalls \in Nat

VARIABLES
    scheduler,        \* xTaskGetSchedulerState()
    xMessageNumber,   \* the static counter of line 75
    pc,               \* where each caller stands in vLoggingPrintf
    cLogitem,         \* the item each caller has formatted
    calls,            \* how many calls have been made (bounds the model)
    mutex,            \* holder of xLoggingSemaphore
    xStreamBuffer,    \* the bytes in the stream buffer
    reader,           \* where vLoggingTask stands
    notified,         \* the stream buffer has notified the blocked reader
    ucRxData,         \* the reader's buffer
    rxLength,         \* what xStreamBufferReceive returned last
    sent, received    \* history: bytes of whole items sent, bytes read

vars == <<scheduler, xMessageNumber, pc, cLogitem, calls, mutex,
          xStreamBuffer, reader, notified, ucRxData, rxLength, sent, received>>
callerVars == <<scheduler, xMessageNumber, pc, cLogitem, calls, mutex, sent>>
readerVars == <<xStreamBuffer, reader, notified, ucRxData, rxLength, received>>
------------------------------------------------------------------------------
Least(m, n) == IF m <= n THEN m ELSE n

\* snprintf and vsnprintf write at most MAX_PRINT_STRING_LENGTH - 1 characters
\* and the terminating 0: the body is cut first, then the enveloped item, which
\* so may lose its "\r\n" (two characters).
ItemLength(body) ==
    LET cut(n) == Least(n, MAX_PRINT_STRING_LENGTH - 1)
    IN  cut(HeaderLength + cut(body) + 2)

Item == [number : 0 .. NumberMod - 1, body : BodyLengths]
Byte == [task : Callers, number : 0 .. NumberMod - 1, at : Nat]

\* The characters of an item; only their origin and position matter here.
ItemBytes(t, item) ==
    [i \in 1 .. ItemLength(item.body) |->
        [task |-> t, number |-> item.number, at |-> i]]

SpacesAvailable == LOGGING_STREAM_BUFFER_SIZE - Len(xStreamBuffer)

\* strlen( ucRxData ); a string that fills the buffer ends just behind it.
StrLen(data) ==
    LET zeros == {i \in DOMAIN data : data[i] = Nul}
    IN  IF zeros = {} THEN Cardinality(DOMAIN data)
        ELSE (CHOOSE i \in zeros : \A j \in zeros : i <= j) - 1

Running(t) == IF t = Main THEN scheduler = "not_started"
                          ELSE scheduler = "running"

Goto(t, from, to) == pc[t] = from /\ pc' = [pc EXCEPT ![t] = to]
------------------------------------------------------------------------------
(* vLoggingPrintf *)

\* The call: vsnprintf has formatted a body of some length.
Call(t) ==
    /\ Running(t)
    /\ calls < MaxCalls
    /\ Goto(t, "idle", "load")
    /\ \E body \in BodyLengths :
          cLogitem' = [cLogitem EXCEPT ![t].body = body]
    /\ calls' = calls + 1
    /\ UNCHANGED <<scheduler, xMessageNumber, mutex, sent, readerVars>>

\* xMessageNumber++ is a load, an add and a store: the load ...
LoadNumber(t) ==
    /\ Goto(t, "load", "store")
    /\ cLogitem' = [cLogitem EXCEPT ![t].number = xMessageNumber]
    /\ UNCHANGED <<scheduler, xMessageNumber, calls, mutex, sent, readerVars>>

RouteAlwaysDirect(t) == "uart"

\* The second look at xTaskGetSchedulerState().
Route(t) == IF scheduler = "not_started" THEN "uart" ELSE "take"

StoreNumberNoWrap(t) ==
    /\ Goto(t, "store", Route(t))
    /\ xMessageNumber' = cLogitem[t].number + 1
    /\ UNCHANGED <<scheduler, cLogitem, calls, mutex, sent, readerVars>>

\* ... and the store; snprintf then builds the item from the caller's own data.
StoreNumber(t) ==
    /\ Goto(t, "store", Route(t))
    /\ xMessageNumber' = (cLogitem[t].number + 1) % NumberMod
    /\ UNCHANGED <<scheduler, cLogitem, calls, mutex, sent, readerVars>>

\* The scheduler is not running: vWriteUart( cLogitem ) directly.
DirectWrite(t) ==
    /\ Goto(t, "uart", "idle")
    /\ UNCHANGED <<scheduler, xMessageNumber, cLogitem, calls, mutex, sent,
                   readerVars>>

TakeMutex(t) ==
    /\ Goto(t, "take", "space")
    /\ mutex = NoTask
    /\ mutex' = t
    /\ UNCHANGED <<scheduler, xMessageNumber, cLogitem, calls, sent, readerVars>>

TakeTimeoutIgnored(t) ==
    /\ Goto(t, "take", "space")
    /\ mutex # NoTask
    /\ UNCHANGED <<scheduler, xMessageNumber, cLogitem, calls, mutex, sent,
                   readerVars>>

\* xSemaphoreTake has not obtained the mutex in 10 ticks: vTaskDelay, then retry.
TakeTimeout(t) ==
    /\ Goto(t, "take", "backoff")
    /\ mutex # NoTask
    /\ UNCHANGED <<scheduler, xMessageNumber, cLogitem, calls, mutex, sent,
                   readerVars>>

\* One of the two vTaskDelay of vLoggingPrintf is over: the loop tests again.
DelayOver(t) ==
    /\ Goto(t, "backoff", "take") \/ Goto(t, "wait", "space")
    /\ UNCHANGED <<scheduler, xMessageNumber, cLogitem, calls, mutex, sent,
                   readerVars>>

FitsIfNotFull(t) == SpacesAvailable > 0

FitsStrictly(t) == SpacesAvailable > ItemLength(cLogitem[t].body)

\* The test of the loop that waits for space.
Fits(t) == SpacesAvailable >= ItemLength(cLogitem[t].body)

TestSpaceOnce(t) ==
    /\ Goto(t, "space", "send")
    /\ UNCHANGED <<scheduler, xMessageNumber, cLogitem, calls, mutex, sent,
                   readerVars>>

TestSpace(t) ==
    /\ \/ Fits(t)  /\ Goto(t, "space", "send")
       \/ ~Fits(t) /\ Goto(t, "space", "wait")
    /\ UNCHANGED <<scheduler, xMessageNumber, cLogitem, calls, mutex, sent,
                   readerVars>>

TriggerLevelSwapped == LOGGING_STREAM_BUFFER_SIZE

\* The second argument of xStreamBufferCreate.
TriggerLevel == LOGGING_SEGMENT_SIZE

\* xStreamBufferSend copies what fits and reports nothing the code looks at;
\* it notifies a blocked reader once the trigger level is reached.
Send(t) ==
    LET item == ItemBytes(t, cLogitem[t])
        n    == Least(Len(item), SpacesAvailable)
    IN  /\ Goto(t, "send", "give")
        /\ xStreamBuffer' = xStreamBuffer \o SubSeq(item, 1, n)
        /\ notified' = (notified \/ (/\ reader = "blocked"
                                     /\ n > 0
                                     /\ Len(xStreamBuffer') >= TriggerLevel))
        /\ sent' = sent \o item
        /\ UNCHANGED <<scheduler, xMessageNumber, cLogitem, calls, mutex,
                       reader, ucRxData, rxLength, received>>

GiveMutex(t) ==
    /\ Goto(t, "give", "idle")
    /\ mutex' = NoTask
    /\ UNCHANGED <<scheduler, xMessageNumber, cLogitem, calls, sent, readerVars>>

\* vTaskStartScheduler does not return: main() makes no further call.
StartScheduler ==
    /\ scheduler = "not_started"
    /\ pc[Main] = "idle"
    /\ scheduler' = "running"
    /\ UNCHANGED <<xMessageNumber, pc, cLogitem, calls, mutex, sent, readerVars>>
------------------------------------------------------------------------------
(* vLoggingTask *)

ReadBytesReset ==
    LET n == Least(RxSize, Len(xStreamBuffer))
    IN  /\ ucRxData' = [i \in DOMAIN ucRxData |->
                          IF i <= n THEN xStreamBuffer[i] ELSE ucRxData[i]]
        /\ rxLength' = n
        /\ received' = received \o SubSeq(xStreamBuffer, 1, n)
        /\ xStreamBuffer' = <<>>
        /\ reader' = "write"
        /\ notified' = FALSE

\* xStreamBufferReceive copies up to RxSize bytes to the front of ucRxData and
\* leaves the rest of ucRxData as it was.
ReadBytes ==
    LET n == Least(RxSize, Len(xStreamBuffer))
    IN  /\ ucRxData' = [i \in DOMAIN ucRxData \cup 1 .. n |->
                          IF i <= n THEN xStreamBuffer[i] ELSE ucRxData[i]]
        /\ rxLength' = n
        /\ received' = received \o SubSeq(xStreamBuffer, 1, n)
        /\ xStreamBuffer' = SubSeq(xStreamBuffer, n + 1, Len(xStreamBuffer))
        /\ reader' = "write"
        /\ notified' = FALSE

\* There is something to read: no blocking.
Receive ==
    /\ scheduler = "running"
    /\ reader = "receive"
    /\ xStreamBuffer # <<>>
    /\ ReadBytes
    /\ UNCHANGED callerVars

\* The buffer is empty: the task registers for a notification and blocks (one
\* critical section in the kernel).
ReceiveBlocks ==
    /\ scheduler = "running"
    /\ reader = "receive"
    /\ xStreamBuffer = <<>>
    /\ reader' = "blocked"
    /\ notified' = FALSE
    /\ UNCHANGED <<xStreamBuffer, ucRxData, rxLength, received, callerVars>>

\* Woken by a send.
ReceiveNotified ==
    /\ reader = "blocked"
    /\ notified
    /\ ReadBytes
    /\ UNCHANGED callerVars

\* LOGGING_STREAM_BLOCK_TIME is over before a notification came.
ReceiveTimeout ==
    /\ reader = "blocked"
    /\ ~notified
    /\ \/ xStreamBuffer # <<>> /\ ReadBytes
       \/ /\ xStreamBuffer = <<>>
          /\ reader' = "receive"
          /\ rxLength' = 0
          /\ UNCHANGED <<xStreamBuffer, notified, ucRxData, received>>
    /\ UNCHANGED callerVars

\* vWriteUart( ucRxData ) returns; what went out is Transmitted below.
WriteUart ==
    /\ reader = "write"
    /\ reader' = "receive"
    /\ UNCHANGED <<xStreamBuffer, notified, ucRxData, rxLength, received,
                   callerVars>>

Transmitted == SubSeq(ucRxData, 1, StrLen(ucRxData))
------------------------------------------------------------------------------
\* vSetupLoggingTask has run; the bytes pvPortMalloc returns are not cleared.
Init ==
    /\ scheduler = "not_started"
    /\ xMessageNumber = 0
    /\ pc = [t \in Callers |-> "idle"]
    /\ cLogitem = [t \in Callers |->
                     [number |-> 0, body |-> CHOOSE b \in BodyLengths : TRUE]]
    /\ calls = 0
    /\ mutex = NoTask
    /\ xStreamBuffer = <<>>
    /\ reader = "receive"
    /\ notified = FALSE
    /\ ucRxData \in [1 .. LOGGING_SEGMENT_SIZE -> {Nul, Junk}]
    /\ rxLength = 0
    /\ sent = <<>>
    /\ received = <<>>

\* What a caller does by itself once it has called vLoggingPrintf.
Continue(t) ==
    \/ LoadNumber(t) \/ StoreNumber(t) \/ DirectWrite(t)
    \/ TakeMutex(t) \/ TakeTimeout(t) \/ DelayOver(t)
    \/ TestSpace(t) \/ Send(t) \/ GiveMutex(t)

LoggingTask == \/ Receive \/ ReceiveBlocks \/ ReceiveNotified
               \/ ReceiveTimeout \/ WriteUart

Next == \/ \E t \in Callers : Call(t) \/ Continue(t)
        \/ StartScheduler
        \/ LoggingTask

\* The kernel shares the processor among ready tasks of equal priority and no
\* task of the application keeps it: every task that can go on does so.  Nobody
\* has to call vLoggingPrintf, but main() does start the scheduler.
Fairness ==
    /\ \A t \in Callers : WF_vars(Continue(t))
    /\ WF_vars(StartScheduler)
    /\ WF_vars(LoggingTask)

Spec == Init /\ [][Next]_vars /\ Fairness
------------------------------------------------------------------------------
Critical == {"space", "wait", "send", "give"}

\* Every variable stays in its range; ucRxData never grows past the
\* LOGGING_SEGMENT_SIZE bytes allocated for it at line 48.
TypeOK ==
    /\ scheduler \in {"not_started", "running"}
    /\ xMessageNumber \in 0 .. NumberMod - 1
    /\ pc \in [Callers -> {"idle", "load", "store", "uart", "take", "backoff"}
                          \cup Critical]
    /\ cLogitem \in [Callers -> Item]
    /\ calls \in Nat
    /\ mutex \in Callers \cup {NoTask}
    /\ xStreamBuffer \in Seq(Byte)
    /\ reader \in {"receive", "blocked", "write"}
    /\ notified \in BOOLEAN
    /\ ucRxData \in [1 .. LOGGING_SEGMENT_SIZE -> Byte \cup {Nul, Junk}]
    /\ rxLength \in Nat
    /\ sent \in Seq(Byte)
    /\ received \in Seq(Byte)

\* A stream buffer allows one writer at a time: a caller between the take and
\* the give of xLoggingSemaphore (lines 115-128) is its holder.
HolderOnly == \A t \in Callers : pc[t] \in Critical <=> mutex = t

\* The space seen by the loop of line 121 is still there when line 127 sends,
\* although the caller may be preempted in between: xStreamBufferSend, whose
\* result is ignored, never cuts an item.
SendFits == \A t \in Callers : pc[t] = "send" => Fits(t)

\* The bytes read by vLoggingTask and those still buffered are the items that
\* were sent, whole, in the order of the sends, nothing lost or duplicated.
StreamIntact == received \o xStreamBuffer = sent

\* "multiple writers will not exist" (line 110): HAL_UART_Transmit is never
\* entered by two tasks, main's direct writes and the logging task's included.
OneUartWriter ==
    /\ \A t, u \in Callers : pc[t] = "uart" /\ pc[u] = "uart" => t = u
    /\ (\E t \in Callers : pc[t] = "uart") => reader # "write"

\* The logging task is never left blocked with bytes to read and no wake-up on
\* its way: an item that arrives while it is blocked reaches the trigger level.
NoLostWakeup == reader = "blocked" /\ xStreamBuffer # <<>> => notified

\* A holder of xLoggingSemaphore gives it back: the logging task, which needs
\* no mutex, makes the space it polls for.
HolderGives == mutex # NoTask ~> mutex = NoTask

\* The promise of LogPipe, with its liveness: Logging implements it.
Pipe == INSTANCE LogPipe
          WITH Items <- {ItemBytes(t, item) : t \in Callers, item \in Item}
ImplementsPipe == Pipe!FairSpec

\* Line 3: the task "actions writing to UART when data is written to a stream
\* buffer": it writes the data that was received, so no byte that an earlier
\* vWriteUart has transmitted is transmitted again behind it.
WritesEachByteOnce ==
    reader = "write" =>
        \A i \in rxLength + 1 .. StrLen(ucRxData) : ucRxData[i] \in {Nul, Junk}
==============================================================================
