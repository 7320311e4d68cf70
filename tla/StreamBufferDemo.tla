-------------------------- MODULE StreamBufferDemo --------------------------
(***************************************************************************)
(* demo-common/minimal/StreamBufferDemo.c: bytes go through stream buffers *)
(* from task to task and back, between tasks that never block, between     *)
(* tasks of different priorities, and from the tick interrupt to a task.   *)
(* A byte is a number; a string of the source is the sequence of the       *)
(* positions in it, so that every byte can be told from its neighbours.    *)
(***************************************************************************)
EXTENDS RtosKernel, Program

CONSTANTS
    sbLOOPS,                    \* bound: 100 in the source
    sbNUMBER_OF_CHARACTERS,     \* bound: 95 in the source; here a divisor of 1 + 2 + .. + 26
    xCycleBlockTime             \* 100 in the source

sbSTREAM_BUFFER_LENGTH_BYTES == 30
sbSTREAM_BUFFER_LENGTH_ONE   == 1
sbLOWER_PRIORITY             == 0
sbHIGHER_PRIORITY            == 1
sbRX_TX_BLOCK_TIME           == 125
sbTRIGGER_LEVEL_1            == 1
configMAX_PRIORITIES         == 5
SizeOfSize                   == 4       \* sizeof( size_t )

String(n) == [i \in 1 .. n |-> i]
pc55ByteString == String(55)
pc54ByteString == [i \in 1 .. 54 |-> 100 + i]
pcDataSentFromInterrupt == String(10)

\* memset: n bytes with the same value.
Filler(n, value) == [i \in 1 .. n |-> value]
Count(n) == [i \in 1 .. n |-> i]
Other(priority) == IF priority = sbLOWER_PRIORITY THEN sbHIGHER_PRIORITY ELSE sbLOWER_PRIORITY

Sends(o, data, n)       == Expect(Send(o, data), {n})
Fetches(o, max, var, n) == Expect(Fetch(o, max, var), {n})

\* The buffer has room for this many bytes.
Holds(o, n) == << Spaces(o, sbSTREAM_BUFFER_LENGTH_BYTES - n), Bytes(o, n),
                  IsEmpty(o, IF n = 0 THEN 1 ELSE 0),
                  IsFull(o, IF n = sbSTREAM_BUFFER_LENGTH_BYTES THEN 1 ELSE 0) >>
-----------------------------------------------------------------------------
(* prvSingleTaskTests, on a buffer that no other task uses *)

\* At the highest priority the call c is refused after its block time.
RefusedAfter(c, priority) == <<
    PrioritySet(Self, configMAX_PRIORITIES - 1), Stamp("xTimeBeforeCall"),
    Expect(Within(c, 15), {0}), InTime("xTimeBeforeCall", 15, 17), PrioritySet(Self, priority) >>

FillAndEmpty(o) ==
    LET data(n) == Filler(n, 0)
        L == sbSTREAM_BUFFER_LENGTH_BYTES
    IN  Holds(o, 0)
        \o << Sends(o, data(1), 1) >> \o Holds(o, 1)
        \o << Sends(o, data(L - 1), L - 1) >> \o Holds(o, L)
        \o << Sends(o, data(1), 0), Fetches(o, 1, "pucReadData", 1) >> \o Holds(o, L - 1)
        \o << Sends(o, data(1), 1) >> \o Holds(o, L)
        \o << Fetches(o, L - 1, "pucReadData", L - 1) >> \o Holds(o, 1)
        \o << Fetches(o, 1, "pucReadData", 1) >> \o Holds(o, 0)
        \o << Within(Sends(o, data(L + 1), L), Forever) >> \o Holds(o, L)
        \o << Within(Fetches(o, L + 1, "pucReadData", L), Forever) >> \o Holds(o, 0)

\* Blocks of six bytes, sent and received with the calls for interrupts.
SixBytes(o, priority) ==
    LET items == Count(sbSTREAM_BUFFER_LENGTH_BYTES \div 6)
    IN  Repeat(items, LAMBDA i :
              << EnterCritical, Sends(o, Filler(6, i), 6), ExitCritical >> \o Holds(o, 6 * i))
        \o << Sends(o, Filler(1, 0), 0) >> \o RefusedAfter(Send(o, Filler(1, 0)), priority)
        \o Repeat(items, LAMBDA i :
              << EnterCritical, Fetches(o, 6, "pucReadData", 6), ExitCritical,
                 Matches("pucReadData", Filler(6, i)) >>
              \o Holds(o, sbSTREAM_BUFFER_LENGTH_BYTES - 6 * i))
        \o RefusedAfter(Fetch(o, 6, "pucReadData"), priority)
        \o Repeat(Count(sbLOOPS), LAMBDA i :
              << Sends(o, Filler(17, i), 17) >> \o Holds(o, 17)
              \o << Fetches(o, 17, "pucReadData", 17), Matches("pucReadData", Filler(17, i)) >>
              \o Holds(o, 0))

\* As a whole and byte by byte.
WholeAndBytes(o) ==
    LET L == sbSTREAM_BUFFER_LENGTH_BYTES
    IN  << Send(o, SubSeq(pc55ByteString, 1, L)), Fetch(o, L, "pucReadData"),
           Matches("pucReadData", pc55ByteString) >>
        \o Repeat(Count(L), LAMBDA i :
              << Within(Send(o, << pc54ByteString[i] >>), sbRX_TX_BLOCK_TIME) >>)
        \o << IsFull(o, 1), Within(Fetches(o, 2 * L, "pucReadData", L), sbRX_TX_BLOCK_TIME),
              Matches("pucReadData", pc54ByteString),
              Within(Sends(o, SubSeq(pc55ByteString, 1, L), L), sbRX_TX_BLOCK_TIME) >>
        \o Holds(o, L)
        \o Repeat(Count(L), LAMBDA i :
              << Within(Fetch(o, 1, "pucReadData"), sbRX_TX_BLOCK_TIME),
                 Matches("pucReadData", << pc55ByteString[i] >>) >>)
        \o << IsEmpty(o, 1), IsFull(o, 0) >>

\* More than the buffer can hold: 60 bytes of a string of 54 and what is behind it.
MoreThanFits(o, priority) ==
    LET L == sbSTREAM_BUFFER_LENGTH_BYTES
        data == pc54ByteString \o Filler(6, 0)
    IN  << PrioritySet(Self, configMAX_PRIORITIES - 1), Within(Sends(o, data, L), 2),
           PrioritySet(Self, priority), IsFull(o, 1), IsEmpty(o, 0),
           Within(Sends(o, data, 0), 2),
           Within(Fetch(o, 2 * L, "pucReadData"), 2), Matches("pucReadData", pc54ByteString),
           IsFull(o, 0), IsEmpty(o, 1),
           Send(o, SubSeq(pc55ByteString, 1, L \div 2)),
           [ResetBuffer(o) EXCEPT !.into = ""], Set("pucReadData", <<>>) >>

prvSingleTaskTests(o, priority) ==
    FillAndEmpty(o) \o SixBytes(o, priority) \o WholeAndBytes(o) \o MoreThanFits(o, priority)
-----------------------------------------------------------------------------
(* Tasks that never block *)

SenderCountsAll == Task(0, <<
    Into(SendRest("xStreamBuffer", pc54ByteString, "xTxNextChar"), "xBytesSent"),
    Set("xTxNextChar", 0), Set("xBytesSent", 0) >>)
prvNonBlockingSenderTask == Task(0, <<
    Into(SendRest("xStreamBuffer", pc54ByteString, "xTxNextChar"), "xBytesSent"),
    Modulo(From(Add("xTxNextChar", 0), "xBytesSent"), Len(pc54ByteString)),
    Set("xBytesSent", 0) >>)

\* What wraps at the end of the string is compared in two parts.
prvNonBlockingReceiverTask == Task(0,
    If(Into(Fetch("xStreamBuffer", 12, "cRxString"), "xReceiveLength"), 1 .. 12, <<
       MatchesAt("cRxString", pc54ByteString, "xRxNextChar"),
       Add("ulNonBlockingRxCounter", 1),
       Modulo(From(Add("xRxNextChar", 0), "xReceiveLength"), Len(pc54ByteString)),
       Set("cRxString", <<>>), Set("xReceiveLength", 0) >>))

\* Prompt {5} only: tasks of the idle priority that never block leave no time to others.
NonBlocking ==
    Prompt(Demo(<< prvNonBlockingReceiverTask, prvNonBlockingSenderTask >>,
                [xStreamBuffer |-> StreamBuffer(sbSTREAM_BUFFER_LENGTH_BYTES, sbTRIGGER_LEVEL_1)],
                [Zero({"xTxNextChar", "xRxNextChar", "xBytesSent", "xReceiveLength",
                       "ulNonBlockingRxCounter", "cRxString"}) EXCEPT !.cRxString = <<>>],
                << "ulNonBlockingRxCounter" >>), {5})
-----------------------------------------------------------------------------
(* A sender of one priority and a receiver of the other *)

prvReceiverTask == Later(<<
    [Into(Within(FetchRest("xStreamBuffer", 12, "cRxString", "xRxNextChar", pc55ByteString), 5),
          "xReceivedLength") EXCEPT !.expect = 1 .. 12, !.no = 0],
    MatchesAt("cRxString", pc55ByteString, "xRxNextChar"),
    Modulo(From(Add("xRxNextChar", 0), "xReceivedLength"), Len(pc55ByteString)),
    Set("cRxString", <<>>), Set("xReceivedLength", 0) >>)

prvSenderTask(priority) ==
    TaskOf(priority,
        (IF priority = sbLOWER_PRIORITY THEN prvSingleTaskTests("xStreamBuffer", priority) ELSE <<>>)
        \o << Create({2}, Other(priority)) >>,
        << Into(Within(SendRest("xStreamBuffer", pc55ByteString, "xTxNextChar"),
                       sbRX_TX_BLOCK_TIME), "xBytesSent"),
           Modulo(From(Add("xTxNextChar", 0), "xBytesSent"), Len(pc55ByteString)),
           Set("xBytesSent", 0), Add("ulSenderLoopCounter", 1) >>
        \o (IF priority = sbHIGHER_PRIORITY THEN << Delay(50) >> ELSE <<>>)
        \o << CreateBuffer("xTempStreamBuffer", StreamBuffer(10 - 1, sbTRIGGER_LEVEL_1)),
              ResetBuffer("xTempStreamBuffer") >>)

Data == [pucReadData |-> <<>>, cRxString |-> <<>>, pcStringReceived |-> <<>>, pcReceivedString |-> <<>>]

SenderAndReceiver(priority) ==
    Prompt(Stamped(Demo(<< prvSenderTask(priority), prvReceiverTask >>,
                        [xStreamBuffer |-> StreamBuffer(sbSTREAM_BUFFER_LENGTH_BYTES, sbTRIGGER_LEVEL_1),
                         xTempStreamBuffer |-> StreamBuffer(0, 1)],
                        Data @@ Zero({"xTxNextChar", "xRxNextChar", "xBytesSent", "xReceivedLength",
                                      "ulSenderLoopCounter"}),
                        << "ulSenderLoopCounter" >>), {"xTimeBeforeCall"}), {0, 4})
-----------------------------------------------------------------------------
(* A client that sends longer and longer strings, and a server that sends them back *)

MaxLengthSent == sbSTREAM_BUFFER_LENGTH_BYTES - SizeOfSize

\* The characters of the string of this length: they go on where the one before ended.
StringToSend(length) ==
    [ux \in 1 .. length |-> ((length * (length - 1)) \div 2 + ux - 1) % sbNUMBER_OF_CHARACTERS]

\* A buffer of one byte.
OneByte(byte) ==
    LET o == "xTempStreamBuffer"
        got == Matches("pcStringReceived", << byte >>)
    IN  << CreateBuffer(o, StreamBuffer(sbSTREAM_BUFFER_LENGTH_ONE, sbTRIGGER_LEVEL_1)),
           Sends(o, << byte >>, 1), Sends(o, << byte >>, 0),
           Fetches(o, 1, "pcStringReceived", 1), got, Fetches(o, 1, "pcStringReceived", 0),
           Sends(o, << byte, byte >>, 1), Fetches(o, 2, "pcStringReceived", 1), got >>

prvEchoClient == Later(Repeat(Count(MaxLengthSent), LAMBDA xSendLength :
    LET pcStringToSend == StringToSend(xSendLength)
    IN  << [Within(Send("xEchoClientBuffer", pcStringToSend), 50) EXCEPT
                !.expect = 1 .. xSendLength, !.no = 0],
           Within(Fetches("xEchoServerBuffer", xSendLength, "pcStringReceived", xSendLength), Forever),
           Matches("pcStringReceived", pcStringToSend), Add("ulEchoLoopCounter", 1) >>
        \o OneByte(pcStringToSend[1]) \o << Set("pcStringReceived", <<>>) >>))

prvEchoServer(priority) ==
    LET L == sbSTREAM_BUFFER_LENGTH_BYTES
    IN  TaskOf(priority,
            << Stamp("xTimeOnEntering"),
               Within(Fetches("xEchoClientBuffer", L, "pcReceivedString", 0), 350),
               InTime("xTimeOnEntering", 350, 400) >>
            \o (IF priority = sbHIGHER_PRIORITY
                THEN prvSingleTaskTests("xEchoClientBuffer", priority) ELSE <<>>)
            \o << Create({2}, Other(priority)) >>,
            << Expect(Within(Fetch("xEchoClientBuffer", L, "pcReceivedString"), Forever), 1 .. L),
               Within(SendVar("xEchoServerBuffer", "pcReceivedString"), Forever),
               Set("pcReceivedString", <<>>) >>)

Echo(priority) ==
    LET buffer == StreamBuffer(sbSTREAM_BUFFER_LENGTH_BYTES, sbTRIGGER_LEVEL_1)
    IN  Prompt(Stamped(Demo(<< prvEchoServer(priority), prvEchoClient >>,
                            [xEchoClientBuffer |-> buffer, xEchoServerBuffer |-> buffer,
                             xTempStreamBuffer |-> StreamBuffer(0, 1)],
                            Data @@ Zero({"ulEchoLoopCounter"}),
                            << "ulEchoLoopCounter" >>),
                       {"xTimeBeforeCall", "xTimeOnEntering"}), {0, 4})
-----------------------------------------------------------------------------
(* The trigger level of a buffer that the tick interrupt writes to *)

xReadBlockTime == 5

\* xInterruptStreamBuffer is 0 or 1: whether there is a buffer for the interrupt.  Past the
\* end of its string the interrupt sends the terminating zero.
vPeriodicStreamBufferProcessing == Task(Interrupt, << Delay(1) >>
    \o IfElse(Read("xInterruptStreamBuffer"), {1},
              << SendPart("xStreamBuffer", pcDataSentFromInterrupt \o <<0>>, "xNextChar", 1) >>
              \o If(Read("xNextChar"), 0 .. Len(pcDataSentFromInterrupt) - 1,
                    << Modulo(Add("xNextChar", 1), Len(pcDataSentFromInterrupt) + 1) >>),
              << Set("xNextChar", 0) >>))

\* A tick between the creation of the buffer and the wait makes the wait end with one byte.
prvInterruptTriggerLevelTest ==
    LET xMinTriggerLevel == 2
        xMaxTriggerLevel == 7
        levels == [i \in 1 .. xMaxTriggerLevel - xMinTriggerLevel |-> xMinTriggerLevel + i - 1]
    IN  Task(configMAX_PRIORITIES - 1, Repeat(levels, LAMBDA xTriggerLevel : <<
            Delay(xCycleBlockTime), CreateBuffer("xStreamBuffer", StreamBuffer(9, xTriggerLevel)),
            Set("xInterruptStreamBuffer", 1),
            Expect(Within(Fetch("xStreamBuffer", 9, "ucRxData"), xReadBlockTime),
                   {1, Min({xTriggerLevel, xReadBlockTime})}),
            Set("xInterruptStreamBuffer", 0),
            Matches("ucRxData", pcDataSentFromInterrupt), Set("ucRxData", <<>>),
            Add("ulInterruptTriggerCounter", 1) >>))

TriggerLevels ==
    Prompt(Demo(<< prvInterruptTriggerLevelTest, vPeriodicStreamBufferProcessing >>,
                [xStreamBuffer |-> StreamBuffer(0, 1)],
                [ucRxData |-> <<>>] @@ Zero({"xInterruptStreamBuffer", "xNextChar",
                                             "ulInterruptTriggerCounter"}),
                << "ulInterruptTriggerCounter" >>), {0})
-----------------------------------------------------------------------------
xAreStreamBufferTasksStillRunning ==
    << "ulEchoLoopCounter", "ulNonBlockingRxCounter", "ulInterruptTriggerCounter",
       "ulSenderLoopCounter" >>

\* The pairs of tasks share no buffer and no variable.
vStartStreamBufferTasks ==
    [echoHigher |-> Echo(sbHIGHER_PRIORITY), echoLower |-> Echo(sbLOWER_PRIORITY),
     nonBlocking |-> NonBlocking, trigger |-> TriggerLevels,
     senderHigher |-> SenderAndReceiver(sbHIGHER_PRIORITY),
     senderLower |-> SenderAndReceiver(sbLOWER_PRIORITY)]
-----------------------------------------------------------------------------
\* The outlines (module Outlines) of the pairs that send a string; of the sender of the lower
\* priority all places up to where it resets the buffer are its setup.
Stream(program, string, sender, posted, received, got, setup) ==
    [program |-> program, o |-> "xStreamBuffer", string |-> string,
     sender |-> sender, receiver |-> 3 - sender, posted |-> posted, received |-> received,
     next |-> "xTxNextChar", sent |-> "xBytesSent", expected |-> "xRxNextChar", got |-> got,
     setup |-> setup]

Outlines ==
    LET tests == Len(prvSingleTaskTests("xStreamBuffer", sbLOWER_PRIORITY))
        pair(priority, n) == Stream(SenderAndReceiver(priority), pc55ByteString, 1, {n + 3},
                                    {2, 3}, "xReceivedLength", 1 .. n - 1)
    IN  {Stream(NonBlocking, pc54ByteString, 2, {2}, {2, 3, 4}, "xReceiveLength", {}),
         pair(sbHIGHER_PRIORITY, 0), pair(sbLOWER_PRIORITY, tests)}
=============================================================================
