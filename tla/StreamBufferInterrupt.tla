----------------------- MODULE StreamBufferInterrupt -----------------------
(***************************************************************************)
(* demo-common/minimal/StreamBufferInterrupt.c: the tick interrupt writes  *)
(* parts of a string to a stream buffer, and a task picks a text out of    *)
(* the stream byte by byte.  A byte of the text is its position, a byte    *)
(* outside it is 0.                                                        *)
(***************************************************************************)
EXTENDS RtosKernel, Program

sbiSTREAM_BUFFER_LENGTH_BYTES     == 100
sbiSTREAM_BUFFER_TRIGGER_LEVEL_10 == 10
xCallsBetweenSends == 100
xBytesToSend       == 4
SizeOfRxBuffer     == 20        \* sizeof( cRxBuffer )

H == 1
S == 14
pcStringToReceive == [i \in 1 .. S |-> i]
pcStringToSend    == [i \in 1 .. 5 |-> 0] \o pcStringToReceive \o [i \in 1 .. 5 |-> 0]

\* If the byte received is this one.
Received(byte) == [Matches("cRxByte", << byte >>) EXCEPT !.strict = FALSE]

\* xDiffers says whether cRxBuffer differs from the text so far.
prvReceivingTask == Task(2,
    << Within(Fetch("xStreamBuffer", 1, "cRxByte"), Forever) >>
    \o IfElse(Read("xNextByte"), {0},
              If(Received(H), {1}, << Set("xNextByte", 1) >>),
              If([MatchesAt("cRxByte", pcStringToReceive, "xNextByte") EXCEPT !.strict = FALSE], {0},
                 << Set("xDiffers", 1) >>)
              \o IfElse(Received(S), {1},
                        << Is("xDiffers", 0), Set("xDiffers", 0), Set("xNextByte", 0),
                           Add("ulCycleCount", 1) >>,
                        << Expect(Modulo(Add("xNextByte", 1), SizeOfRxBuffer + 1),
                                  0 .. SizeOfRxBuffer - 1) >>))
    \o << Set("cRxByte", <<>>) >>)

vBasicStreamBufferSendFromISR == Task(Interrupt, <<
    Delay(xCallsBetweenSends + 1),
    SendPart("xStreamBuffer", pcStringToSend, "xNextByteToSend", xBytesToSend),
    Modulo(Add("xNextByteToSend", xBytesToSend), Len(pcStringToSend)) >>)

xIsInterruptStreamBufferDemoStillRunning == << "ulCycleCount" >>

\* The buffer holds what the interrupt sends in 2500 ticks: the task is not kept waiting.
vStartStreamBufferInterruptDemo ==
    Prompt(Demo(<< prvReceivingTask, vBasicStreamBufferSendFromISR >>,
                [xStreamBuffer |-> StreamBuffer(sbiSTREAM_BUFFER_LENGTH_BYTES,
                                                sbiSTREAM_BUFFER_TRIGGER_LEVEL_10)],
                [cRxByte |-> <<>>] @@ Zero({"xNextByte", "xDiffers", "xNextByteToSend", "ulCycleCount"}),
                xIsInterruptStreamBufferDemoStillRunning), {0})
=============================================================================
