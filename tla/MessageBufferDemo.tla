------------------------- MODULE MessageBufferDemo -------------------------
(***************************************************************************)
(* demo-common/minimal/MessageBufferDemo.c: messages of many lengths go    *)
(* through message buffers, between tasks that never block, from a sender  *)
(* of one priority to a receiver of the other, and from a client to a      *)
(* server and back.  A byte is a number, a message a sequence of bytes.    *)
(***************************************************************************)
EXTENDS RtosKernel, Program

CONSTANTS
    mbLOOPS,                    \* bound: 100 in the source
    mbNUMBER_OF_CHARACTERS,     \* bound: 95 in the source; here a divisor of 1 + 2 + .. + 46
    iMaxValue,                  \* 1500 in the source
    iSendsBetweenIncrements,    \* 100 in the source
    DataMod                     \* bound: the sender counts without end in the source; here modulo
                                \* this multiple of iSendsBetweenIncrements

mbMESSAGE_BUFFER_LENGTH_BYTES   == 50
mbBYTES_TO_STORE_MESSAGE_LENGTH == sbBYTES_TO_STORE_MESSAGE_LENGTH
mbLOWER_PRIORITY                == 0
mbHIGHER_PRIORITY               == 1
mbRX_TX_BLOCK_TIME              == 175
configMAX_PRIORITIES            == 5
SizeOfSize                      == 4       \* sizeof( size_t )

pc55ByteString == [i \in 1 .. 54 |-> i]

\* memset: n bytes with the same value.
Filler(n, value) == [i \in 1 .. n |-> value]
Count(n) == [i \in 1 .. n |-> i]
Other(priority) == IF priority = mbLOWER_PRIORITY THEN mbHIGHER_PRIORITY ELSE mbLOWER_PRIORITY

Sends(o, data, n)       == Expect(Send(o, data), {n})
Fetches(o, max, var, n) == Expect(Fetch(o, max, var), {n})

\* The buffer holds n messages of this length.
Holds(o, n, length) == <<
    Spaces(o, mbMESSAGE_BUFFER_LENGTH_BYTES - n * (length + mbBYTES_TO_STORE_MESSAGE_LENGTH)),
    NextLength(o, IF n = 0 THEN 0 ELSE length) >>
-----------------------------------------------------------------------------
(* prvSingleTaskTests, on a buffer that no other task uses *)

\* At the highest priority the call c is refused after its block time.
RefusedAfter(c, priority) == <<
    PrioritySet(Self, configMAX_PRIORITIES - 1), Stamp("xTimeBeforeCall"),
    Expect(Within(c, 25), {0}), InTime("xTimeBeforeCall", 25, 27), PrioritySet(Self, priority) >>

\* Messages of six bytes, sent and received with the calls for interrupts; a message that
\* is longer than the buffer is refused at once.
SixBytes(o, priority) ==
    LET xMax6ByteMessages == mbMESSAGE_BUFFER_LENGTH_BYTES \div (6 + mbBYTES_TO_STORE_MESSAGE_LENGTH)
        tooLong == Filler(mbMESSAGE_BUFFER_LENGTH_BYTES + mbBYTES_TO_STORE_MESSAGE_LENGTH, 0)
    IN  Holds(o, 0, 6) \o << IsEmpty(o, 1), Sends(o, tooLong, 0), Within(Sends(o, tooLong, 0), Forever) >>
        \o Repeat(Count(xMax6ByteMessages), LAMBDA i :
              << IsFull(o, 0), EnterCritical, Sends(o, Filler(6, i), 6), ExitCritical >>
              \o Holds(o, i, 6))
        \o << IsFull(o, 1), Sends(o, Filler(1, 0), 0) >>
        \o RefusedAfter(Send(o, Filler(1, 0)), priority)
        \o Repeat(Count(xMax6ByteMessages), LAMBDA i :
              << Fetches(o, 6 - 1, "pucReadData", 0), NextLength(o, 6),
                 EnterCritical, Fetches(o, 6, "pucReadData", 6), ExitCritical,
                 Matches("pucReadData", Filler(6, i)) >> \o Holds(o, xMax6ByteMessages - i, 6))
        \o << IsEmpty(o, 1) >> \o RefusedAfter(Fetch(o, 6, "pucReadData"), priority)

\* Messages of 17 bytes, then one that just fits.
LongerMessages(o) ==
    LET size == mbMESSAGE_BUFFER_LENGTH_BYTES
        string(n) == SubSeq(pc55ByteString, 1, n)
        fits == size - SizeOfSize
    IN  Repeat(Count(mbLOOPS), LAMBDA i :
              << Sends(o, Filler(17, i), 17) >> \o Holds(o, 1, 17)
              \o << Fetches(o, 17, "pucReadData", 17), Matches("pucReadData", Filler(17, i)),
                    NextLength(o, 0) >>)
        \o << IsEmpty(o, 1) >> \o Holds(o, 0, 17)
        \o Repeat(<<0, 1, 2, 3>>, LAMBDA n : << Sends(o, string(size - n), 0) >>)
        \o << NextLength(o, 0), Sends(o, string(fits), fits), NextLength(o, fits),
              Fetches(o, fits, "pucReadData", fits), Matches("pucReadData", string(fits)),
              ResetBuffer(o), Set("pucReadData", <<>>) >>

prvSingleTaskTests(o, priority) == SixBytes(o, priority) \o LongerMessages(o)
-----------------------------------------------------------------------------
(* Tasks that never block: numbers in decimal *)

NextNumber(number, from) == << Modulo(Add(number, 1), iMaxValue + 1), Format(from, number) >>

prvNonBlockingSenderTask == TaskOf(0, << Format("cTxString", "iTxData") >>,
    If([SendVar("xMessageBuffer", "cTxString") EXCEPT !.into = ""], 1 .. 12,
       NextNumber("iTxData", "cTxString")))

prvNonBlockingReceiverTask == TaskOf(0, << Format("cExpectedString", "iRxData") >>,
    If(Fetch("xMessageBuffer", 12, "cRxString"), 1 .. 12,
       << SameData("cRxString", "cExpectedString") >> \o NextNumber("iRxData", "cExpectedString")
       \o << Set("cRxString", <<>>), Add("ulNonBlockingRxCounter", 1) >>))

Strings == [cTxString |-> <<>>, cRxString |-> <<>>, cExpectedString |-> <<>>, pucReadData |-> <<>>,
            pcStringReceived |-> <<>>, pcReceivedString |-> <<>>]

\* Prompt {5} only: tasks of the idle priority that never block leave no time to others.
NonBlocking ==
    Prompt(Demo(<< prvNonBlockingReceiverTask, prvNonBlockingSenderTask >>,
                [xMessageBuffer |-> MessageBuffer(mbMESSAGE_BUFFER_LENGTH_BYTES)],
                Strings @@ Zero({"iTxData", "iRxData", "ulNonBlockingRxCounter"}),
                << "ulNonBlockingRxCounter" >>), {5})
-----------------------------------------------------------------------------
(* A sender of one priority and a receiver of the other *)

prvSenderTask(priority) ==
    TaskOf(priority,
        (IF priority = mbLOWER_PRIORITY THEN prvSingleTaskTests("xMessageBuffer", priority) ELSE <<>>)
        \o << Create({2}, Other(priority)) >>,
        << Format("cTxString", "iTxData"),
           [Within(SendVar("xMessageBuffer", "cTxString"), mbRX_TX_BLOCK_TIME) EXCEPT
                !.expect = 1 .. 12, !.no = 0],
           Modulo(Add("iTxData", 1), DataMod) >>
        \o If(Read("iTxData"), {n \in 0 .. DataMod - 1 : n % iSendsBetweenIncrements = 0},
              << Add("ulSenderLoopCounter", 1) >>
              \o (IF priority = mbHIGHER_PRIORITY THEN << Delay(50) >> ELSE <<>>)
              \o << CreateBuffer("xTempMessageBuffer", MessageBuffer(12 - 1)) >>))

prvReceiverTask == Later(<<
    Format("cExpectedString", "iRxData"),
    [Within(Fetch("xMessageBuffer", 12, "cRxString"), 5) EXCEPT !.expect = 1 .. 12, !.no = 0],
    SameData("cRxString", "cExpectedString"),
    Modulo(Add("iRxData", 1), DataMod), Set("cRxString", <<>>) >>)

SenderAndReceiver(priority) ==
    Prompt(Stamped(Demo(<< prvSenderTask(priority), prvReceiverTask >>,
                        [xMessageBuffer |-> MessageBuffer(mbMESSAGE_BUFFER_LENGTH_BYTES),
                         xTempMessageBuffer |-> MessageBuffer(0)],
                        Strings @@ Zero({"iTxData", "iRxData", "ulSenderLoopCounter"}),
                        << "ulSenderLoopCounter" >>), {"xTimeBeforeCall"}), {0, 4})
-----------------------------------------------------------------------------
(* A client that sends longer and longer strings, and a server that sends them back *)

MaxLengthSent == mbMESSAGE_BUFFER_LENGTH_BYTES - SizeOfSize

\* The characters of the string of this length: they go on where the one before ended.
StringToSend(length) ==
    [ux \in 1 .. length |-> ((length * (length - 1)) \div 2 + ux - 1) % mbNUMBER_OF_CHARACTERS]

prvEchoClient == Later(Repeat(Count(MaxLengthSent), LAMBDA xSendLength :
    (IF xSendLength = 1 THEN << Add("ulEchoLoopCounter", 1) >> ELSE <<>>)
    \o << [Within(Send("xEchoClientBuffer", StringToSend(xSendLength)), 50) EXCEPT
                !.expect = 1 .. xSendLength, !.no = 0],
          Within(Fetches("xEchoServerBuffer", xSendLength, "pcStringReceived", xSendLength), Forever),
          Matches("pcStringReceived", StringToSend(xSendLength)), Set("pcStringReceived", <<>>) >>))

prvEchoServer(priority) ==
    LET size == mbMESSAGE_BUFFER_LENGTH_BYTES
    IN  TaskOf(priority,
            << Stamp("xTimeOnEntering"),
               Within(Fetches("xEchoClientBuffer", size, "pcReceivedString", 0), 250),
               InTime("xTimeOnEntering", 250, 300) >>
            \o (IF priority = mbHIGHER_PRIORITY
                THEN prvSingleTaskTests("xEchoClientBuffer", priority) ELSE <<>>)
            \o << Create({2}, Other(priority)) >>,
            << Expect(Within(Fetch("xEchoClientBuffer", size, "pcReceivedString"), Forever), 1 .. size),
               Within(SendVar("xEchoServerBuffer", "pcReceivedString"), Forever),
               Set("pcReceivedString", <<>>),
               CreateBuffer("xTempMessageBuffer", MessageBuffer(size)) >>)

Echo(priority) ==
    LET buffer == MessageBuffer(mbMESSAGE_BUFFER_LENGTH_BYTES)
    IN  Prompt(Stamped(Demo(<< prvEchoServer(priority), prvEchoClient >>,
                            [xEchoClientBuffer |-> buffer, xEchoServerBuffer |-> buffer,
                             xTempMessageBuffer |-> MessageBuffer(0)],
                            Strings @@ Zero({"ulEchoLoopCounter"}),
                            << "ulEchoLoopCounter" >>),
                       {"xTimeBeforeCall", "xTimeOnEntering"}), {0, 4})
-----------------------------------------------------------------------------
(* The space in a buffer is looked at while another task writes and reads *)

mbCOHERENCE_TEST_BUFFER_SIZE   == 20
mbCOHERENCE_TEST_BYTES_WRITTEN == 5
mbEXPECTED_FREE_BYTES_AFTER_WRITING_STRING ==
    mbCOHERENCE_TEST_BUFFER_SIZE - (mbCOHERENCE_TEST_BYTES_WRITTEN + mbBYTES_TO_STORE_MESSAGE_LENGTH)

prvSpaceAvailableCoherenceActor ==
    LET cTxString == Count(mbCOHERENCE_TEST_BYTES_WRITTEN)
    IN  Task(0, << Send("xCoherenceTestMessageBuffer", cTxString),
                   Spaces("xCoherenceTestMessageBuffer", mbEXPECTED_FREE_BYTES_AFTER_WRITING_STRING),
                   Fetch("xCoherenceTestMessageBuffer", mbCOHERENCE_TEST_BYTES_WRITTEN, "cRxString"),
                   Matches("cRxString", cTxString), Set("cRxString", <<>>) >>)

prvSpaceAvailableCoherenceTester ==
    Task(0, << [Spaces("xCoherenceTestMessageBuffer", 0) EXCEPT
                    !.expect = {mbCOHERENCE_TEST_BUFFER_SIZE, mbEXPECTED_FREE_BYTES_AFTER_WRITING_STRING}],
               Add("ulSizeCoherencyTestCycles", 1) >>)

\* Only with configRUN_ADDITIONAL_TESTS.
Coherence ==
    Prompt(Demo(<< prvSpaceAvailableCoherenceActor, prvSpaceAvailableCoherenceTester >>,
                [xCoherenceTestMessageBuffer |-> MessageBuffer(mbCOHERENCE_TEST_BUFFER_SIZE)],
                Strings @@ Zero({"ulSizeCoherencyTestCycles"}),
                << "ulSizeCoherencyTestCycles" >>), {5})
-----------------------------------------------------------------------------
xAreMessageBufferTasksStillRunning ==
    << "ulEchoLoopCounter", "ulNonBlockingRxCounter", "ulSenderLoopCounter",
       "ulSizeCoherencyTestCycles" >>

\* The pairs of tasks share no buffer and no variable.
vStartMessageBufferTasks ==
    [echoHigher |-> Echo(mbHIGHER_PRIORITY), echoLower |-> Echo(mbLOWER_PRIORITY),
     nonBlocking |-> NonBlocking, coherence |-> Coherence,
     senderHigher |-> SenderAndReceiver(mbHIGHER_PRIORITY),
     senderLower |-> SenderAndReceiver(mbLOWER_PRIORITY)]
=============================================================================
